---- MODULE Spec2Model ----
(***************************************************************************)
(* Model of the streaming high resolution DEM cache of OmniLRS             *)
(* (src/terrain_management/large_scale_terrain/                            *)
(* high_resolution_DEM_generator.py, class HighResDEMGen).                 *)
(*                                                                         *)
(* Coordinates are pairs <<x, y>> of integers (meters).  The resolution    *)
(* is the rational res_num / res_den meters per pixel, so that Python's    *)
(* int(a / resolution) is TruncDiv(a * res_den, res_num).                  *)
(*                                                                         *)
(* Threads: the caller's thread runs update_high_res_dem / shift one       *)
(* statement group at a time (pc); every collector thread started by an    *)
(* update runs threaded_high_res_dem_update, one loop iteration per step;  *)
(* a worker pool is the queue of its outstanding jobs, of which a          *)
(* collection pass receives the results that are ready.                    *)
(***************************************************************************)
EXTENDS Integers, Sequences, FiniteSets, TLC

VARIABLES
    settings,               \* HighResDEMCfg of the instance
    current_block_coord,    \* self.current_block_coord
    sim_is_warm,            \* self.sim_is_warm
    block_grid_tracker,     \* self.block_grid_tracker: relative slot -> state
    map_grid_block2coords,  \* self.map_grid_block2coords: absolute -> relative
    high_res_dem,           \* self.high_res_dem: <<i, j>> -> sample
    crater_db,              \* blocks present in the crater DB
    crater_jobs,            \* crater_builder_manager: jobs submitted, result not collected
    terrain_jobs,           \* interpolator_manager: jobs submitted, result not collected
    collectors,             \* live threads running threaded_high_res_dem_update
    pc,                     \* position of the caller's thread
    call,                   \* locals of the update in progress
    ncalls,                 \* number of update calls made so far
    last_ret,               \* value returned by the last completed update
    started,                \* collector threads started so far
    query,                  \* the last get_height call and its outcome
    pool,                   \* the worker pool managers: queues, workers, lifecycle
    collector_pass          \* a collection pass in progress: results drained, not yet merged

vars == <<settings, current_block_coord, sim_is_warm, block_grid_tracker,
          map_grid_block2coords, high_res_dem, crater_db, crater_jobs,
          terrain_jobs, collectors, pc, call, ncalls,
          last_ret, started, query, pool, collector_pass>>

----------------------------------------------------------------------------
(* Bounds of the model *)

\* number of update calls explored without and with crater generation
MaxUpdates == 3
MaxUpdatesCraters == 2
\* the caller calls update only while at most this many jobs are outstanding
MaxOutstanding == 6
\* capacity of the output queue of a worker pool (output_queue_size)
OutputQueueSize == 3
\* window radius in blocks (num_blocks of the configuration)
MaxNumBlocks == 0
\* pixels per block side (block_size / resolution)
PxPerBlock == 1

\* block size in meters
BlockSize == 50

\* positions passed to update
Positions == {<<0, 0>>, <<10, 10>>, <<60, 0>>}

\* largest number of pixels per block side of the buffers given to shift_dem
MaxShiftPxPerBlock == 2

\* capacity of the input queue of a worker pool (input_queue_size), the
\* number of its workers (num_workers), and the calls of shutdown explored
InputQueueSize == 5
NumPoolWorkers == 1
MaxShutdownCalls == 2
\* number of update calls explored with the pool in detail
MaxPoolUpdates == 2

\* largest num_blocks, block_size and resolution (in size) of the settings
\* given to the constructor
MaxCandidate == 2

\* largest num_blocks and block_size of the configurations queried by get_height
MaxQueryNumBlocks == 1
MaxQueryBlockSize == 5

\* largest window radius, in blocks, of the warm generator whose shift is observed
MaxWarmNumBlocks == 1

\* update calls made when the collection loop is followed statement by statement
MaxSplitUpdates == 2

\* crater sampling region: largest window radius in blocks, largest block size
\* in length units, largest number of length units per metre, and largest
\* distance of the window centre from the origin in blocks
MaxRegionNumBlocks == 1
MaxRegionBlockSize == 5
MaxLengthDen == 2
MaxRegionCenter == 2

\* the cast on binary floating-point numbers: bits of the significand
\* (53 in Python's float), length units per metre, and largest block index
SignificandBits == 5
FloatLengthDen == 16
MaxFloatBlocks == 7

\* terrain configurations: largest number given to a numeric field (the
\* smallest is 0) and largest length of the lists densities and radius
MaxConfNumber == 2
MaxConfListLen == 1

\* clipmap elevation fetch: largest DEM side in pixels, largest mesh
\* coordinate in metres, largest meters_per_pixel
MaxDemSide == 3
MaxMeshCoord == 2
MaxMetersPerPixel == 2

----------------------------------------------------------------------------
(* Arithmetic helpers *)

\* Python int(a / b) for b > 0: truncation toward zero
TruncDiv(a, b) == IF a >= 0 THEN a \div b ELSE -((-a) \div b)

Min(a, b) == IF a <= b THEN a ELSE b

RECURSIVE Pow2(_)
Pow2(n) == IF n = 0 THEN 1 ELSE 2 * Pow2(n - 1)

\* round v >= 0 to the nearest number with a p-bit significand, ties to even
RoundMagnitude(v, p) ==
    IF v < Pow2(p) THEN v
    ELSE LET k == CHOOSE k \in p .. 30 : Pow2(k) <= v /\ v < Pow2(k + 1)
             q == Pow2(k - p + 1)
             lo == (v \div q) * q
             r == v - lo
         IN IF 2 * r < q THEN lo
            ELSE IF 2 * r > q THEN lo + q
            ELSE IF (lo \div q) % 2 = 0 THEN lo ELSE lo + q

\* the settings give significand_bits when lengths are binary floating-point
\* numbers; otherwise the arithmetic is exact
FloatRound(s, v) ==
    IF "significand_bits" \notin DOMAIN s THEN v
    ELSE IF v >= 0 THEN RoundMagnitude(v, s.significand_bits)
         ELSE -RoundMagnitude(-v, s.significand_bits)

\* int(a / self.settings.resolution)
ToPixels(s, a) == TruncDiv(a * s.res_den, s.res_num)

Configs ==
    { [num_blocks |-> MaxNumBlocks, block_size |-> BlockSize,
       res_num |-> BlockSize, res_den |-> PxPerBlock,
       generate_craters |-> g] : g \in BOOLEAN }

----------------------------------------------------------------------------
(* HighResDEMGen: pure parts *)

\* side of the buffer in pixels
BufSize(s) == ToPixels(s, (s.num_blocks * 2 + 3) * s.block_size)

Pixels(s) == (0 .. BufSize(s) - 1) \X (0 .. BufSize(s) - 1)

instantiate_high_res_dem(s) == [p \in Pixels(s) |-> 0]

\* int(x // block_size) * block_size: the floor division is exact, the product
\* is rounded when the lengths are floating-point numbers
cast_coordinates_to_block_space(s, c) ==
    <<FloatRound(s, (c[1] \div s.block_size) * s.block_size),
      FloatRound(s, (c[2] \div s.block_size) * s.block_size)>>

\* variant of the grid range: no padding ring around the window
GridRange_NoRing(s) == (-s.num_blocks) .. s.num_blocks

\* range(-num_blocks - 1, num_blocks + 2)
GridRange(s) == (-s.num_blocks - 1) .. (s.num_blocks + 1)

GridSlots(s) ==
    {<<x * s.block_size, y * s.block_size>> : x \in GridRange(s), y \in GridRange(s)}

\* the test of lines 272-281 / 320-329 on a relative slot
IsRing(s, r) ==
    \/ r[1] = (-s.num_blocks - 1) * s.block_size
    \/ r[1] = (s.num_blocks + 1) * s.block_size
    \/ r[2] = (-s.num_blocks - 1) * s.block_size
    \/ r[2] = (s.num_blocks + 1) * s.block_size

Add(a, b) == <<a[1] + b[1], a[2] + b[2]>>
Sub(a, b) == <<a[1] - b[1], a[2] - b[2]>>

\* variant of the state of a new block: crater flags never pre-set
EmptyState_CraterFlagsFalse(s) ==
    [has_crater_metadata |-> FALSE,
     has_crater_data |-> FALSE,
     has_terrain_data |-> FALSE,
     is_padding |-> FALSE]

EmptyState(s) ==
    [has_crater_metadata |-> ~s.generate_craters,
     has_crater_data |-> ~s.generate_craters,
     has_terrain_data |-> FALSE,
     is_padding |-> FALSE]

build_block_grid_tracker(s) ==
    [r \in GridSlots(s) |-> [EmptyState(s) EXCEPT !.is_padding = IsRing(s, r)]]

build_block_grid_map(s, center) ==
    [a \in {Add(r, center) : r \in GridSlots(s)} |-> Sub(a, center)]

\* shift_block_grid: the is_padding writes of lines 320-329 go to the OLD
\* tracker (self.block_grid_tracker), whose objects are the ones carried over.
OldTrackerRepadded(s, tracker) ==
    [r \in DOMAIN tracker |-> [tracker[r] EXCEPT !.is_padding = IsRing(s, r)]]

\* variant of shift_block_grid: the states stay at their relative slots
shift_block_grid_tracker_BySlot(s, tracker, map, coordinates) ==
    [r \in GridSlots(s) |-> tracker[r]]

shift_block_grid_tracker(s, tracker, map, coordinates) ==
    LET old == OldTrackerRepadded(s, tracker)
    IN [r \in GridSlots(s) |->
          IF Add(r, coordinates) \notin DOMAIN map
          THEN EmptyState(s)
          ELSE old[map[Add(r, coordinates)]]]

\* variant of shift_block_grid: the map keeps the keys of the old center
shift_block_grid_map_OldCenter(s, coordinates) ==
    [a \in GridSlots(s) |-> a]

shift_block_grid_map(s, coordinates) ==
    [a \in {Add(r, coordinates) : r \in GridSlots(s)} |-> Sub(a, coordinates)]


\* Python slice bound k on an axis of length n
SliceIdx(k, n) == IF k < 0 THEN (IF k + n < 0 THEN 0 ELSE k + n)
                  ELSE (IF k > n THEN n ELSE k)

\* variant of the slice bounds: a negative shift moves nothing
AxisBounds_NegativeIgnored(sh, n) ==
    IF sh > 0 THEN [min_s |-> 0, max_s |-> -sh, min_t |-> sh, max_t |-> n]
    ELSE [min_s |-> 0, max_s |-> n, min_t |-> 0, max_t |-> n]

\* source and target slice bounds of shift_dem on one axis (lines 355-384)
AxisBounds(sh, n) ==
    IF sh > 0 THEN [min_s |-> 0, max_s |-> -sh, min_t |-> sh, max_t |-> n]
    ELSE IF sh = 0 THEN [min_s |-> 0, max_s |-> n, min_t |-> 0, max_t |-> n]
    ELSE [min_s |-> -sh, max_s |-> n, min_t |-> 0, max_t |-> sh]

shift_dem(dem, n, pixel_shift) ==
    LET x_shift == pixel_shift[1]
        y_shift == pixel_shift[2]
        bx == AxisBounds(x_shift, n)
        by == AxisBounds(y_shift, n)
        x0t == SliceIdx(bx.min_t, n)
        x1t == SliceIdx(bx.max_t, n)
        y0t == SliceIdx(by.min_t, n)
        y1t == SliceIdx(by.max_t, n)
        x0s == SliceIdx(bx.min_s, n)
        y0s == SliceIdx(by.min_s, n)
        InTarget(p) == /\ x0t <= p[1] /\ p[1] < x1t
                       /\ y0t <= p[2] /\ p[2] < y1t
        Zeroed(p) == \/ x_shift < 0 /\ p[1] >= x1t
                     \/ x_shift > 0 /\ p[1] < x0t
                     \/ y_shift < 0 /\ p[2] >= y1t
                     \/ y_shift > 0 /\ p[2] < y0t
    IN IF x_shift > n \/ y_shift > n
       THEN [p \in DOMAIN dem |-> 0]
       ELSE [p \in DOMAIN dem |->
               IF Zeroed(p) THEN 0
               ELSE IF InTarget(p)
                    THEN dem[<<p[1] - x0t + x0s, p[2] - y0t + y0s>>]
                    ELSE dem[p]]

\* variant of pixel_shift: the block delta in metres, not divided by the resolution
PixelShift_Metres(s, new_block_coord, old_block_coord) ==
    <<-(new_block_coord[1] - old_block_coord[1]),
      -(new_block_coord[2] - old_block_coord[2])>>

\* variant of pixel_shift: the buffer moves with the window
PixelShift_SameSign(s, new_block_coord, old_block_coord) ==
    <<ToPixels(s, new_block_coord[1] - old_block_coord[1]),
      ToPixels(s, new_block_coord[2] - old_block_coord[2])>>

\* pixel_shift of shift (lines 413-420)
PixelShift(s, new_block_coord, old_block_coord) ==
    <<-ToPixels(s, new_block_coord[1] - old_block_coord[1]),
      -ToPixels(s, new_block_coord[2] - old_block_coord[2])>>

\* int(get_coordinates(c)[axis] / resolution) of get_height (lines 446-449, 599-610)
\* get_coordinates(c)[axis] / resolution as the fraction HeightNumerator / res_num
HeightNumerator(s, cur, c, axis) ==
    (c[axis] - cur[axis] - (s.block_size \div 2)) * s.res_den
      + (BufSize(s) \div 2) * s.res_num

HeightIndex(s, cur, c, axis) == TruncDiv(HeightNumerator(s, cur, c, axis), s.res_num)

\* numpy index k on an axis of length n: wraps a negative index, else raises
PyIndex(k, n) == IF k >= n \/ k < -n THEN -1 ELSE IF k < 0 THEN k + n ELSE k

get_height(s, dem, cur, c) ==
    LET n == BufSize(s)
        i == PyIndex(HeightIndex(s, cur, c, 1), n)
        j == PyIndex(HeightIndex(s, cur, c, 2), n)
    IN IF i < 0 \/ j < 0
       THEN [kind |-> "IndexError", at |-> <<-1, -1>>, value |-> 0]
       ELSE [kind |-> "value", at |-> <<i, j>>, value |-> dem[<<i, j>>]]

AllReady(st) == st.has_crater_metadata /\ st.has_crater_data /\ st.has_terrain_data

\* variant of is_map_done: blocks flagged is_padding are not required
is_map_done_SkipPadding(tracker, map) ==
    \A a \in DOMAIN map : tracker[map[a]].is_padding \/ AllReady(tracker[map[a]])

is_map_done(tracker, map) ==
    \A a \in DOMAIN map : AllReady(tracker[map[a]])

\* insertion order of the keys of map_grid_block2coords (x outer, y inner)
OrderedKeys(s, center) ==
    LET n == 2 * s.num_blocks + 3
    IN [k \in 1 .. n * n |->
          <<(((k - 1) \div n) - s.num_blocks - 1) * s.block_size + center[1],
            (((k - 1) % n) - s.num_blocks - 1) * s.block_size + center[2]>>]

\* lengths are whole numbers of 1 / LengthDen(s) metre; 1 (whole metres)
\* unless the settings give len_den
LengthDen(s) == IF "len_den" \in DOMAIN s THEN s.len_den ELSE 1

\* Python int(v) of a length v: truncation toward zero to whole metres
IntMetres(s, v) == TruncDiv(v, LengthDen(s)) * LengthDen(s)

\* generate_craters_metadata: region of lines 521-538
SampleRegion(s, cur) ==
    [x_min |-> IntMetres(s, cur[1] - (s.num_blocks + 2) * s.block_size),
     x_max |-> IntMetres(s, cur[1] + (s.num_blocks + 2) * s.block_size),
     y_min |-> IntMetres(s, cur[2] - (s.num_blocks + 2) * s.block_size),
     y_max |-> IntMetres(s, cur[2] + (s.num_blocks + 2) * s.block_size)]

\* CraterSampler.sample_craters_by_region: the blocks the region covers
RegionBlocks(s, region) ==
    {<<x * s.block_size, y * s.block_size>> :
        x \in (region.x_min \div s.block_size) .. (region.x_max \div s.block_size),
        y \in (region.y_min \div s.block_size) .. (region.y_max \div s.block_size)}

\* CraterDB.check_block_exists
check_block_exists(db, coords) == coords \in db

\* variant of generate_craters_metadata: the flags are left as shift_block_grid
\* set them
RefreshCraterMetadata_FlagsKept(tracker, map, db) == tracker

\* flags after the loop of lines 541-548
RefreshCraterMetadata(tracker, map, db) ==
    [r \in DOMAIN tracker |->
        IF \E a \in DOMAIN map : map[a] = r
        THEN [tracker[r] EXCEPT !.has_crater_metadata =
                \E a \in DOMAIN map : map[a] = r /\ check_block_exists(db, a)]
        ELSE tracker[r]]

\* variant of the crater jobs: no job for a block flagged is_padding
CraterJobs_SkipPadding(s, tracker, map, keys) ==
    SelectSeq(keys, LAMBDA a : /\ ~tracker[map[a]].has_crater_data
                               /\ ~tracker[map[a]].is_padding)

\* jobs submitted by generate_terrain_blocks to each pool, in order
CraterJobs(s, tracker, map, keys) ==
    SelectSeq(keys, LAMBDA a : ~tracker[map[a]].has_crater_data)

\* variant of the interpolation jobs: no job for a block flagged is_padding
TerrainJobs_SkipPadding(s, tracker, map, keys) ==
    SelectSeq(keys, LAMBDA a : /\ ~tracker[map[a]].has_terrain_data
                               /\ ~tracker[map[a]].is_padding)

TerrainJobs(s, tracker, map, keys) ==
    SelectSeq(keys, LAMBDA a : ~tracker[map[a]].has_terrain_data)

\* rasters returned by the workers: one value per block, uniform over the block
TerrainRaster(s, a) ==
    1 + ((a[1] \div s.block_size) % 3) + 3 * ((a[2] \div s.block_size) % 3)

CraterRaster(s, a) == 10 * TerrainRaster(s, a)

\* offset of collect_terrain_data (lines 645-649)
PaddingOffset(s) == ToPixels(s, (s.num_blocks + 1) * s.block_size)

\* pixels of the slice written for relative slot r (lines 657-667)
BlockRegion(s, r) ==
    LET n == BufSize(s)
        off == PaddingOffset(s)
        x0 == SliceIdx(ToPixels(s, r[1]) + off, n)
        x1 == SliceIdx(ToPixels(s, r[1] + s.block_size) + off, n)
        y0 == SliceIdx(ToPixels(s, r[2]) + off, n)
        y1 == SliceIdx(ToPixels(s, r[2] + s.block_size) + off, n)
    IN {p \in Pixels(s) : x0 <= p[1] /\ p[1] < x1 /\ y0 <= p[2] /\ p[2] < y1}

AddRaster(s, dem, r, v) ==
    LET reg == BlockRegion(s, r)
    IN [p \in DOMAIN dem |-> IF p \in reg THEN dem[p] + v ELSE dem[p]]

SetFlag(tracker, r, kind) ==
    IF kind = "crater"
    THEN [tracker EXCEPT ![r].has_crater_data = TRUE]
    ELSE [tracker EXCEPT ![r].has_terrain_data = TRUE]

\* one of the two loops of collect_terrain_data over a drained result list;
\* a coordinate missing from map_grid_block2coords raises KeyError (ok = FALSE)
RECURSIVE MergeResults(_, _, _, _, _)
MergeResults(s, results, kind, map, st) ==
    IF results = <<>> \/ ~st.ok THEN st
    ELSE LET a == Head(results)
         IN IF a \notin DOMAIN map
            THEN [st EXCEPT !.ok = FALSE]
            ELSE MergeResults(s, Tail(results), kind, map,
                   [dem |-> AddRaster(s, st.dem, map[a],
                              IF kind = "crater" THEN CraterRaster(s, a)
                              ELSE TerrainRaster(s, a)),
                    tracker |-> SetFlag(st.tracker, map[a], kind),
                    ok |-> TRUE])

\* WorkerManager.collect_results on a pool whose first k jobs are finished
Results(jobs, k) == SubSeq(jobs, 1, k)

Remaining(jobs, k) == SubSeq(jobs, k + 1, Len(jobs))

UpdateBudget(s) == IF s.generate_craters THEN MaxUpdatesCraters ELSE MaxUpdates

----------------------------------------------------------------------------
(* HighResDEMGen: state machine *)

NoCall ==
    [coords |-> <<0, 0>>, block_coordinates |-> <<0, 0>>, branch |-> "none",
     old_block_coord |-> <<0, 0>>, new_block_coord |-> <<0, 0>>,
     pixel_shift |-> <<0, 0>>,
     was_done |-> FALSE,
     num_shifts |-> 0, updated |-> FALSE]

\* both managers as built by build (lines 161-168): queues empty, workers idle
NoPool ==
    [input |-> <<>>, busy |-> <<>>, output |-> <<>>, todo |-> <<>>,
     stuck |-> FALSE,
     crater_builder_manager |-> "running",
     interpolator_manager |-> "running",
     shutdown_calls |-> 0]

\* no collection pass in progress; ended_at is the number of update calls made
\* when a collection loop last ended on is_map_done() with the caller idle
NoPass == [held |-> <<>>, ended_at |-> -1]

NoQuery == [coords |-> <<0, 0>>, kind |-> "none", at |-> <<-1, -1>>, value |-> 0]

\* __init__ and build (lines 122-173)
Init ==
    /\ settings \in Configs
    /\ current_block_coord = <<0, 0>>
    /\ sim_is_warm = FALSE
    /\ block_grid_tracker = build_block_grid_tracker(settings)
    /\ map_grid_block2coords = build_block_grid_map(settings, <<0, 0>>)
    /\ high_res_dem = instantiate_high_res_dem(settings)
    /\ crater_db = {}
    /\ crater_jobs = <<>>
    /\ terrain_jobs = <<>>
    /\ collectors = 0
    /\ pc = "idle"
    /\ call = NoCall
    /\ ncalls = 0
    /\ last_ret = "none"
    /\ started = 0
    /\ query = NoQuery
    /\ pool = NoPool
    /\ collector_pass = NoPass

\* variant of the test: the raw position is compared with the block coordinate
NeedsShift_RawPosition(cur, block_coordinates, coords) == cur # coords

\* the test of line 475
NeedsShift(cur, block_coordinates, coords) == cur # block_coordinates

\* entry of shift(coordinates): lines 410-420; was_done records what
\* is_map_done() returns at that point
EnterShift(coordinates, branch, c, n) ==
    LET nb == cast_coordinates_to_block_space(settings, coordinates)
    IN /\ call' = [coords |-> c.coords,
                   block_coordinates |-> c.block_coordinates,
                   branch |-> branch,
                   old_block_coord |-> current_block_coord,
                   new_block_coord |-> nb,
                   pixel_shift |-> PixelShift(settings, nb, current_block_coord),
                   was_done |-> is_map_done(block_grid_tracker, map_grid_block2coords),
                   num_shifts |-> n,
                   updated |-> c.updated]
       /\ pc' = "shift_block_grid"

\* update_high_res_dem(coords) up to its first shift or its return (lines 467-480)
Update(coords) ==
    /\ pc = "idle"
    /\ ncalls < UpdateBudget(settings)
    /\ Len(crater_jobs) + Len(terrain_jobs) <= MaxOutstanding
    /\ ncalls' = ncalls + 1
    /\ LET bc == cast_coordinates_to_block_space(settings, coords)
           c == [NoCall EXCEPT !.coords = coords, !.block_coordinates = bc,
                              !.old_block_coord = current_block_coord]
       IN IF ~sim_is_warm
          THEN EnterShift(bc, "warm", c, 1) /\ UNCHANGED last_ret
          ELSE IF NeedsShift(current_block_coord, bc, coords)
               THEN EnterShift(coords, "move", c, 1) /\ UNCHANGED last_ret
               ELSE /\ call' = c
                    /\ pc' = "idle"
                    /\ last_ret' = "false"
    /\ UNCHANGED <<collector_pass, pool, settings, current_block_coord, sim_is_warm, block_grid_tracker,
                   map_grid_block2coords, high_res_dem, crater_db, crater_jobs, terrain_jobs, collectors, started, query>>

\* shift, line 422
ShiftBlockGrid ==
    /\ pc = "shift_block_grid"
    /\ block_grid_tracker' =
         shift_block_grid_tracker(settings, block_grid_tracker,
                                  map_grid_block2coords, call.new_block_coord)
    /\ map_grid_block2coords' = shift_block_grid_map(settings, call.new_block_coord)
    /\ pc' = "shift_dem"
    /\ UNCHANGED <<collector_pass, pool, settings, current_block_coord, sim_is_warm, high_res_dem,
                   crater_db, crater_jobs, terrain_jobs,
                   collectors, call, ncalls, last_ret, started, query>>

\* shift, lines 424-426
ShiftDem ==
    /\ pc = "shift_dem"
    /\ high_res_dem' = shift_dem(high_res_dem, BufSize(settings), call.pixel_shift)
    /\ current_block_coord' = call.new_block_coord
    /\ pc' = IF settings.generate_craters THEN "generate_craters_metadata"
             ELSE "generate_terrain_blocks"
    /\ UNCHANGED <<collector_pass, pool, settings, sim_is_warm, block_grid_tracker,
                   map_grid_block2coords, crater_db, crater_jobs, terrain_jobs, collectors, call, ncalls, last_ret,
                   started, query>>

\* shift, lines 429-430
GenerateCratersMetadata ==
    /\ pc = "generate_craters_metadata"
    /\ crater_db' = crater_db \cup
                    RegionBlocks(settings, SampleRegion(settings, current_block_coord))
    /\ block_grid_tracker' =
         RefreshCraterMetadata(block_grid_tracker, map_grid_block2coords, crater_db')
    /\ pc' = "generate_terrain_blocks"
    /\ UNCHANGED <<collector_pass, pool, settings, current_block_coord, sim_is_warm,
                   map_grid_block2coords, high_res_dem, crater_jobs, terrain_jobs, collectors, call, ncalls, last_ret,
                   started, query>>

\* shift, line 432
GenerateTerrainBlocks ==
    /\ pc = "generate_terrain_blocks"
    /\ LET keys == OrderedKeys(settings, current_block_coord)
       IN /\ crater_jobs' = crater_jobs \o
                CraterJobs(settings, block_grid_tracker, map_grid_block2coords, keys)
          /\ terrain_jobs' = terrain_jobs \o
                TerrainJobs(settings, block_grid_tracker, map_grid_block2coords, keys)
    /\ pc' = "start_thread"
    /\ UNCHANGED <<collector_pass, pool, settings, current_block_coord, sim_is_warm, block_grid_tracker,
                   map_grid_block2coords, high_res_dem, crater_db, collectors,
                   call, ncalls, last_ret, started, query>>

\* update_high_res_dem after a shift returned: lines 472-474 followed by the
\* test of line 475, or lines 478-480
StartThread ==
    /\ pc = "start_thread"
    /\ collectors' = collectors + 1
    /\ started' = started + 1
    /\ IF call.branch = "warm"
       THEN /\ sim_is_warm' = TRUE
            /\ IF NeedsShift(current_block_coord, call.block_coordinates, call.coords)
               THEN EnterShift(call.coords, "move",
                               [call EXCEPT !.updated = TRUE], call.num_shifts + 1)
                    /\ UNCHANGED last_ret
               ELSE /\ call' = [call EXCEPT !.updated = TRUE]
                    /\ pc' = "idle"
                    /\ last_ret' = "true"
       ELSE /\ call' = [call EXCEPT !.updated = TRUE]
            /\ pc' = "idle"
            /\ last_ret' = "true"
            /\ UNCHANGED sim_is_warm
    /\ UNCHANGED <<collector_pass, pool, settings, current_block_coord, block_grid_tracker,
                   map_grid_block2coords, high_res_dem, crater_db, crater_jobs, terrain_jobs, ncalls, query>>

\* one iteration of threaded_high_res_dem_update (lines 507-509) and the
\* collect_terrain_data it calls (lines 645-689); nc and nt are the numbers of
\* results the two pools have ready
CollectorIter ==
    /\ collectors > 0
    /\ IF is_map_done(block_grid_tracker, map_grid_block2coords)
       THEN /\ collectors' = collectors - 1
            /\ UNCHANGED <<block_grid_tracker, high_res_dem, crater_jobs,
                           terrain_jobs>>
       ELSE \E nc \in 0 .. Min(OutputQueueSize, Len(crater_jobs)),
               nt \in 0 .. Min(OutputQueueSize, Len(terrain_jobs)) :
            LET st0 == [dem |-> high_res_dem, tracker |-> block_grid_tracker,
                        ok |-> TRUE]
                a == MergeResults(settings, Results(crater_jobs, nc), "crater",
                                  map_grid_block2coords, st0)
                b == MergeResults(settings, Results(terrain_jobs, nt), "terrain",
                                  map_grid_block2coords, a)
            IN /\ high_res_dem' = b.dem
               /\ block_grid_tracker' = b.tracker
               /\ crater_jobs' = Remaining(crater_jobs, nc)
               /\ terrain_jobs' = IF a.ok THEN Remaining(terrain_jobs, nt)
                                  ELSE terrain_jobs
               /\ collectors' = IF b.ok THEN collectors ELSE collectors - 1
    /\ UNCHANGED <<collector_pass, pool, settings, current_block_coord, sim_is_warm,
                   map_grid_block2coords, crater_db, pc, call, ncalls, last_ret,
                   started, query>>

Next ==
    \/ \E coords \in Positions : Update(coords)
    \/ ShiftBlockGrid
    \/ ShiftDem
    \/ GenerateCratersMetadata
    \/ GenerateTerrainBlocks
    \/ StartThread
    \/ CollectorIter

Spec == Init /\ [][Next]_vars

----------------------------------------------------------------------------
(* Construction followed by the single call update((0, 0)), with workers that
   finish every job and collector threads that keep running *)

FirstUpdate == ncalls = 0 /\ Update(<<0, 0>>)

\* the statements of the caller's thread inside a call
CallerStep ==
    \/ ShiftBlockGrid
    \/ ShiftDem
    \/ GenerateCratersMetadata
    \/ GenerateTerrainBlocks
    \/ StartThread

\* an iteration of a collector that receives a result, or leaves the loop
CollectorProgress ==
    /\ CollectorIter
    /\ \/ Len(crater_jobs') < Len(crater_jobs)
       \/ Len(terrain_jobs') < Len(terrain_jobs)
       \/ collectors' < collectors

OneUpdateNext ==
    \/ FirstUpdate
    \/ ShiftBlockGrid
    \/ ShiftDem
    \/ GenerateCratersMetadata
    \/ GenerateTerrainBlocks
    \/ StartThread
    \/ CollectorIter

OneUpdateFairSpec ==
    /\ Init
    /\ [][OneUpdateNext]_vars
    /\ WF_vars(CallerStep)
    /\ WF_vars(CollectorProgress)

----------------------------------------------------------------------------
(* The generator with the interpolator pool in detail: bounded input queue,
   workers that may stop finishing jobs, output queue, shutdown.  Crater
   generation is disabled, so that the interpolator pool is the only one used. *)

\* WorkerManager.process_data waits while the input queue is full
InputQueueFull(p) == Len(p.input) >= InputQueueSize

\* WorkerManager.shutdown: terminates the workers; a second call changes nothing
ManagerShutdown(m) == "stopped"

\* variant of shutdown: only the interpolator manager is shut down
shutdown_InterpolatorOnly(p) ==
    [p EXCEPT !.interpolator_manager = ManagerShutdown(p.interpolator_manager)]

\* shutdown (lines 697-698)
shutdown(p) ==
    [p EXCEPT !.crater_builder_manager = ManagerShutdown(p.crater_builder_manager),
              !.interpolator_manager = ManagerShutdown(p.interpolator_manager)]

PoolInit == Init /\ ~settings.generate_craters

PoolPositions == {<<0, 0>>, <<60, 0>>}

\* update_high_res_dem on a generator that was not shut down
PoolUpdate(coords) ==
    /\ pool.shutdown_calls = 0
    /\ ncalls < MaxPoolUpdates
    /\ Update(coords)

\* generate_terrain_blocks: entry of the loop of line 623
BeginSubmit ==
    /\ pc = "generate_terrain_blocks"
    /\ LET jobs == TerrainJobs(settings, block_grid_tracker, map_grid_block2coords,
                               OrderedKeys(settings, current_block_coord))
       IN /\ pool' = [pool EXCEPT !.todo = jobs]
          /\ pc' = IF jobs = <<>> THEN "start_thread" ELSE "process_data"
    /\ UNCHANGED <<collector_pass, settings, current_block_coord, sim_is_warm, block_grid_tracker,
                   map_grid_block2coords, high_res_dem, crater_db, crater_jobs,
                   terrain_jobs, collectors, call, ncalls, last_ret, started, query>>

\* generate_terrain_blocks: one interpolator_manager.process_data (lines 632-635)
ProcessData ==
    /\ pc = "process_data"
    /\ ~InputQueueFull(pool)
    /\ pool' = [pool EXCEPT !.input = Append(@, Head(pool.todo)),
                            !.todo = Tail(@)]
    /\ pc' = IF Tail(pool.todo) = <<>> THEN "start_thread" ELSE "process_data"
    /\ UNCHANGED <<collector_pass, settings, current_block_coord, sim_is_warm, block_grid_tracker,
                   map_grid_block2coords, high_res_dem, crater_db, crater_jobs,
                   terrain_jobs, collectors, call, ncalls, last_ret, started, query>>

\* a worker takes the next job of the input queue
WorkerTake ==
    /\ pool.interpolator_manager = "running"
    /\ pool.input # <<>>
    /\ Len(pool.busy) < NumPoolWorkers
    /\ pool' = [pool EXCEPT !.busy = Append(@, Head(pool.input)),
                            !.input = Tail(@)]
    /\ UNCHANGED <<collector_pass, settings, current_block_coord, sim_is_warm, block_grid_tracker,
                   map_grid_block2coords, high_res_dem, crater_db, crater_jobs,
                   terrain_jobs, collectors, pc, call, ncalls, last_ret, started,
                   query>>

\* a worker puts the result of its job into the output queue
WorkerPut ==
    /\ pool.interpolator_manager = "running"
    /\ ~pool.stuck
    /\ pool.busy # <<>>
    /\ Len(pool.output) < OutputQueueSize
    /\ pool' = [pool EXCEPT !.output = Append(@, Head(pool.busy)),
                            !.busy = Tail(@)]
    /\ UNCHANGED <<collector_pass, settings, current_block_coord, sim_is_warm, block_grid_tracker,
                   map_grid_block2coords, high_res_dem, crater_db, crater_jobs,
                   terrain_jobs, collectors, pc, call, ncalls, last_ret, started,
                   query>>

\* the workers stop finishing jobs (failure): the jobs they hold never
\* produce a result
WorkerStall ==
    /\ pool.interpolator_manager = "running"
    /\ ~pool.stuck
    /\ pool.busy # <<>>
    /\ pool' = [pool EXCEPT !.stuck = TRUE]
    /\ UNCHANGED <<collector_pass, settings, current_block_coord, sim_is_warm, block_grid_tracker,
                   map_grid_block2coords, high_res_dem, crater_db, crater_jobs,
                   terrain_jobs, collectors, pc, call, ncalls, last_ret, started,
                   query>>

\* one iteration of threaded_high_res_dem_update (lines 507-509);
\* collect_results drains the output queue
PoolCollectorIter ==
    /\ collectors > 0
    /\ IF is_map_done(block_grid_tracker, map_grid_block2coords)
       THEN /\ collectors' = collectors - 1
            /\ UNCHANGED <<block_grid_tracker, high_res_dem, pool>>
       ELSE LET st0 == [dem |-> high_res_dem, tracker |-> block_grid_tracker,
                        ok |-> TRUE]
                b == MergeResults(settings, Results(pool.output, Len(pool.output)),
                                  "terrain", map_grid_block2coords, st0)
            IN /\ high_res_dem' = b.dem
               /\ block_grid_tracker' = b.tracker
               /\ pool' = [pool EXCEPT !.output =
                                Remaining(pool.output, Len(pool.output))]
               /\ collectors' = IF b.ok THEN collectors ELSE collectors - 1
    /\ UNCHANGED <<collector_pass, settings, current_block_coord, sim_is_warm,
                   map_grid_block2coords, crater_db, crater_jobs, terrain_jobs,
                   pc, call, ncalls, last_ret, started, query>>

\* shutdown() called by the owner of the generator (lines 691-698)
Shutdown ==
    /\ pc = "idle"
    /\ pool.shutdown_calls < MaxShutdownCalls
    /\ pool' = [shutdown(pool) EXCEPT !.shutdown_calls = @ + 1]
    /\ UNCHANGED <<collector_pass, settings, current_block_coord, sim_is_warm, block_grid_tracker,
                   map_grid_block2coords, high_res_dem, crater_db, crater_jobs,
                   terrain_jobs, collectors, pc, call, ncalls, last_ret, started,
                   query>>

\* __del__ (lines 700-706): the destructor calls shutdown
Del ==
    /\ pc = "idle"
    /\ pool' = [shutdown(pool) EXCEPT !.shutdown_calls = @ + 1]
    /\ pc' = "deleted"
    /\ UNCHANGED <<collector_pass, settings, current_block_coord, sim_is_warm, block_grid_tracker,
                   map_grid_block2coords, high_res_dem, crater_db, crater_jobs,
                   terrain_jobs, collectors, call, ncalls, last_ret, started,
                   query>>

PoolNext ==
    \/ \E coords \in PoolPositions : PoolUpdate(coords)
    \/ ShiftBlockGrid
    \/ ShiftDem
    \/ BeginSubmit
    \/ ProcessData
    \/ StartThread
    \/ WorkerTake
    \/ WorkerPut
    \/ WorkerStall
    \/ PoolCollectorIter
    \/ Shutdown
    \/ Del

PoolSpec == PoolInit /\ [][PoolNext]_vars

----------------------------------------------------------------------------
(* Construction of HighResDEMGen from arbitrary numeric settings *)

CandidateConfigs ==
    [num_blocks : (-MaxCandidate) .. MaxCandidate,
     block_size : (-MaxCandidate) .. MaxCandidate,
     res_num : (-MaxCandidate) .. MaxCandidate,
     res_den : {1},
     generate_craters : BOOLEAN]

\* the shape argument of np.zeros in instantiate_high_res_dem (lines 202-213),
\* for a resolution other than 0
BufDim(s) ==
    LET a == (s.num_blocks * 2 + 3) * s.block_size * s.res_den
    IN IF s.res_num > 0 THEN TruncDiv(a, s.res_num)
       ELSE TruncDiv(-a, -s.res_num)

\* outcome of __init__ / build for settings s
build(s) ==
    IF s.res_num = 0 THEN "ZeroDivisionError"
    ELSE IF BufDim(s) < 0 THEN "ValueError"
    ELSE "idle"

ConstructInit ==
    /\ settings \in CandidateConfigs
    /\ current_block_coord = <<0, 0>>
    /\ sim_is_warm = FALSE
    /\ block_grid_tracker = <<>>
    /\ map_grid_block2coords = <<>>
    /\ high_res_dem = <<>>
    /\ crater_db = {}
    /\ crater_jobs = <<>>
    /\ terrain_jobs = <<>>
    /\ collectors = 0
    /\ pc = "new"
    /\ call = NoCall
    /\ ncalls = 0
    /\ last_ret = "none"
    /\ started = 0
    /\ query = NoQuery
    /\ pool = NoPool
    /\ collector_pass = NoPass

\* HighResDEMGen(low_res_dem, settings): lines 122-173
Construct ==
    /\ pc = "new"
    /\ pc' = build(settings)
    /\ block_grid_tracker' = build_block_grid_tracker(settings)
    /\ map_grid_block2coords' = build_block_grid_map(settings, <<0, 0>>)
    /\ high_res_dem' =
         IF build(settings) = "idle"
         THEN [p \in (0 .. BufDim(settings) - 1) \X (0 .. BufDim(settings) - 1) |-> 0]
         ELSE <<>>
    /\ UNCHANGED <<collector_pass, settings, current_block_coord, sim_is_warm, crater_db,
                   crater_jobs, terrain_jobs, collectors, call, ncalls, last_ret,
                   started, query, pool>>

ConstructSpec == ConstructInit /\ [][Construct]_vars

----------------------------------------------------------------------------
(* get_height on a warm generator whose window is complete *)

\* configurations whose block size is a whole number of pixels
QueryConfigs ==
    {s \in [num_blocks : 0 .. MaxQueryNumBlocks,
            block_size : (MaxQueryBlockSize - 1) .. MaxQueryBlockSize,
            res_num : 1 .. 2, res_den : 1 .. 2,
            generate_craters : {FALSE}] :
        /\ (s.block_size * s.res_den) % s.res_num = 0
        /\ ~(s.res_num = 2 /\ s.res_den = 2)}

QueryCenters(s) == {<<0, 0>>, <<s.block_size, 0>>, <<-s.block_size, s.block_size>>}

QueryOffsets(s) ==
    LET far == (s.num_blocks + 2) * s.block_size
    IN [x : (-far) .. (far + s.block_size),
        y : {-far, -1, 0, s.block_size - 1, far}]

\* every pixel holds a value of its own
MarkedDem(s) == [p \in Pixels(s) |-> 1 + p[1] * BufSize(s) + p[2]]

ReadyTracker(s) ==
    [r \in GridSlots(s) |->
        [has_crater_metadata |-> TRUE, has_crater_data |-> TRUE,
         has_terrain_data |-> TRUE, is_padding |-> IsRing(s, r)]]

QueryInit ==
    /\ settings \in QueryConfigs
    /\ current_block_coord \in QueryCenters(settings)
    /\ sim_is_warm = TRUE
    /\ block_grid_tracker = ReadyTracker(settings)
    /\ map_grid_block2coords = shift_block_grid_map(settings, current_block_coord)
    /\ high_res_dem = MarkedDem(settings)
    /\ crater_db = {}
    /\ crater_jobs = <<>>
    /\ terrain_jobs = <<>>
    /\ collectors = 0
    /\ pc = "idle"
    /\ call = NoCall
    /\ ncalls = 1
    /\ last_ret = "true"
    /\ started = 1
    /\ query = NoQuery
    /\ pool = NoPool
    /\ collector_pass = NoPass

\* get_height(coordinates) (lines 446-449); one call is observed per run
GetHeight(coordinates) ==
    /\ pc = "idle"
    /\ query.kind = "none"
    /\ LET h == get_height(settings, high_res_dem, current_block_coord, coordinates)
       IN query' = [coords |-> coordinates, kind |-> h.kind, at |-> h.at,
                    value |-> h.value]
    /\ UNCHANGED <<collector_pass, pool, settings, current_block_coord, sim_is_warm, block_grid_tracker,
                   map_grid_block2coords, high_res_dem, crater_db, crater_jobs,
                   terrain_jobs, collectors, pc, call, ncalls, last_ret, started>>

QueryNext ==
    \E d \in QueryOffsets(settings) :
        GetHeight(<<current_block_coord[1] + d.x, current_block_coord[2] + d.y>>)

QuerySpec == QueryInit /\ [][QueryNext]_vars

----------------------------------------------------------------------------
(* shift_dem on a buffer whose pixels all differ, for every pixel shift up to
   one pixel beyond the buffer extent *)

ShiftConfigs ==
    { [num_blocks |-> 0, block_size |-> BlockSize,
       res_num |-> BlockSize, res_den |-> k,
       generate_craters |-> FALSE] : k \in 1 .. MaxShiftPxPerBlock }

ShiftRange(s) == (-BufSize(s) - 1) .. (BufSize(s) + 1)

ShiftDemInit ==
    /\ settings \in ShiftConfigs
    /\ current_block_coord = <<0, 0>>
    /\ sim_is_warm = TRUE
    /\ block_grid_tracker = ReadyTracker(settings)
    /\ map_grid_block2coords = shift_block_grid_map(settings, <<0, 0>>)
    /\ high_res_dem = MarkedDem(settings)
    /\ crater_db = {}
    /\ crater_jobs = <<>>
    /\ terrain_jobs = <<>>
    /\ collectors = 0
    /\ pc = "shift_dem"
    /\ \E dx \in ShiftRange(settings), dy \in ShiftRange(settings) :
          call = [NoCall EXCEPT !.branch = "move", !.pixel_shift = <<dx, dy>>,
                                !.num_shifts = 1]
    /\ ncalls = 2
    /\ last_ret = "true"
    /\ started = 1
    /\ query = NoQuery
    /\ pool = NoPool
    /\ collector_pass = NoPass

ShiftDemSpec == ShiftDemInit /\ [][ShiftDem]_vars

----------------------------------------------------------------------------
(* One update of a warm generator, with no collection pass during it: the
   window holds a pattern of ready blocks whose regions carry data, and the
   update asks for a position up to one block beyond the window extent *)

WarmConfigs ==
    { [num_blocks |-> nb, block_size |-> BlockSize,
       res_num |-> BlockSize, res_den |-> k,
       generate_craters |-> g] :
         nb \in 0 .. MaxWarmNumBlocks, k \in 1 .. MaxShiftPxPerBlock, g \in BOOLEAN }

WarmCenters(s) == {<<0, 0>>, <<-s.block_size, s.block_size>>}

\* which blocks have their results merged: all (0), every other one (1), none (2)
ReadyPatterns == 0 .. 2

IsReady(s, r, pat) ==
    pat = 0 \/ (pat = 1 /\ ((r[1] + r[2]) \div s.block_size) % 2 = 0)

WarmTracker(s, pat) ==
    [r \in GridSlots(s) |->
        [has_crater_metadata |-> TRUE,
         has_crater_data |-> ~s.generate_craters \/ IsReady(s, r, pat),
         has_terrain_data |-> IsReady(s, r, pat),
         is_padding |-> IsRing(s, r)]]

WarmDem(s, pat) ==
    [p \in Pixels(s) |->
        IF \E r \in GridSlots(s) : IsReady(s, r, pat) /\ p \in BlockRegion(s, r)
        THEN MarkedDem(s)[p] ELSE 0]

\* requested positions: block deltas up to one block beyond the window extent,
\* at the block origin and inside the block
WarmPositions(s, cur) ==
    LET far == 2 * s.num_blocks + 4
    IN {<<cur[1] + dx * s.block_size + o[1], cur[2] + dy * s.block_size + o[2]>> :
           dx \in (-far) .. far, dy \in {-far, -1, 0, 1, far},
           o \in {<<0, 0>>, <<10, 20>>}}

WarmShiftInit ==
    /\ settings \in WarmConfigs
    /\ current_block_coord \in WarmCenters(settings)
    /\ sim_is_warm = TRUE
    /\ \E pat \in ReadyPatterns :
          /\ block_grid_tracker = WarmTracker(settings, pat)
          /\ high_res_dem = WarmDem(settings, pat)
    /\ map_grid_block2coords = shift_block_grid_map(settings, current_block_coord)
    /\ crater_db = IF settings.generate_craters
                   THEN RegionBlocks(settings, SampleRegion(settings, current_block_coord))
                   ELSE {}
    /\ crater_jobs = <<>>
    /\ terrain_jobs = <<>>
    /\ collectors = 0
    /\ pc = "idle"
    /\ call = NoCall
    /\ ncalls = UpdateBudget(settings) - 1
    /\ last_ret = "true"
    /\ started = 1
    /\ query = NoQuery
    /\ pool = NoPool
    /\ collector_pass = NoPass

WarmShiftNext ==
    \/ \E coords \in WarmPositions(settings, current_block_coord) : Update(coords)
    \/ ShiftBlockGrid
    \/ ShiftDem
    \/ GenerateCratersMetadata
    \/ GenerateTerrainBlocks
    \/ StartThread

WarmShiftSpec == WarmShiftInit /\ [][WarmShiftNext]_vars

----------------------------------------------------------------------------
(* The generator without craters, with an interpolator pool that gives no
   ordering guarantee: a collection pass receives the oldest or the newest
   outstanding results *)

ReorderInit == Init /\ ~settings.generate_craters

\* one iteration of threaded_high_res_dem_update (lines 507-509) whose
\* collect_results returns a full output queue of the most recently submitted
\* jobs
CollectorIterNewest ==
    /\ collectors > 0
    /\ ~is_map_done(block_grid_tracker, map_grid_block2coords)
    /\ terrain_jobs # <<>>
    /\ LET k == Len(terrain_jobs) - Min(OutputQueueSize, Len(terrain_jobs))
           st0 == [dem |-> high_res_dem, tracker |-> block_grid_tracker,
                   ok |-> TRUE]
           b == MergeResults(settings, Remaining(terrain_jobs, k), "terrain",
                             map_grid_block2coords, st0)
       IN /\ high_res_dem' = b.dem
          /\ block_grid_tracker' = b.tracker
          /\ terrain_jobs' = Results(terrain_jobs, k)
          /\ collectors' = IF b.ok THEN collectors ELSE collectors - 1
    /\ UNCHANGED <<collector_pass, pool, settings, current_block_coord, sim_is_warm,
                   map_grid_block2coords, crater_db, crater_jobs, pc, call, ncalls,
                   last_ret, started, query>>

ReorderNext ==
    \/ \E coords \in PoolPositions : Update(coords)
    \/ ShiftBlockGrid
    \/ ShiftDem
    \/ GenerateTerrainBlocks
    \/ StartThread
    \/ CollectorIter
    \/ CollectorIterNewest

ReorderSpec == ReorderInit /\ [][ReorderNext]_vars

----------------------------------------------------------------------------
(* The generator without craters, with the collection loop one statement at a
   time: a loop tests is_map_done(), drains the results that are ready, in
   any order of arrival, and merges them one by one, while the other loops
   and the caller run *)

\* update_high_res_dem, at most MaxSplitUpdates calls
SplitUpdate(coords) ==
    /\ ncalls < MaxSplitUpdates
    /\ Update(coords)

\* index of the oldest outstanding job whose block is in the window (0: none)
OldestInWindow(jobs, map) ==
    LET I == {i \in 1 .. Len(jobs) : jobs[i] \in DOMAIN map}
    IN IF I = {} THEN 0 ELSE CHOOSE i \in I : \A j \in I : i <= j

\* threaded_high_res_dem_update: the test of line 507 is false and
\* collect_results (line 672) returns one result or a full output queue of
\* results, those of the oldest outstanding jobs or, the jobs of blocks that
\* left the window being slower, of the oldest jobs from the first one whose
\* block is in the window
CollectorTake ==
    /\ collectors > 0
    /\ collector_pass.held = <<>>
    /\ ~is_map_done(block_grid_tracker, map_grid_block2coords)
    /\ \E i \in {1, OldestInWindow(terrain_jobs, map_grid_block2coords)},
          n \in {1, OutputQueueSize} :
          /\ i >= 1
          /\ i + n - 1 <= Len(terrain_jobs)
          /\ collector_pass' = [collector_pass EXCEPT
                                   !.held = SubSeq(terrain_jobs, i, i + n - 1)]
          /\ terrain_jobs' = SubSeq(terrain_jobs, 1, i - 1)
                               \o SubSeq(terrain_jobs, i + n, Len(terrain_jobs))
    /\ UNCHANGED <<pool, settings, current_block_coord, sim_is_warm,
                   block_grid_tracker, map_grid_block2coords, high_res_dem,
                   crater_db, crater_jobs, collectors, pc, call, ncalls, last_ret,
                   started, query>>

\* collect_terrain_data: one iteration of the loop of lines 673-689; a
\* KeyError ends the thread and drops the results it still holds
CollectorMergeOne ==
    /\ collector_pass.held # <<>>
    /\ LET st0 == [dem |-> high_res_dem, tracker |-> block_grid_tracker,
                   ok |-> TRUE]
           b == MergeResults(settings, <<Head(collector_pass.held)>>, "terrain",
                             map_grid_block2coords, st0)
       IN /\ high_res_dem' = b.dem
          /\ block_grid_tracker' = b.tracker
          /\ collector_pass' = [collector_pass EXCEPT
                                   !.held = IF b.ok THEN Tail(@) ELSE <<>>]
          /\ collectors' = IF b.ok THEN collectors ELSE collectors - 1
    /\ UNCHANGED <<pool, settings, current_block_coord, sim_is_warm,
                   map_grid_block2coords, crater_db, crater_jobs, terrain_jobs, pc,
                   call, ncalls, last_ret, started, query>>

\* threaded_high_res_dem_update: a loop that is not in a pass finds the test
\* of line 507 true and returns
CollectorExit ==
    /\ collectors > (IF collector_pass.held # <<>> THEN 1 ELSE 0)
    /\ is_map_done(block_grid_tracker, map_grid_block2coords)
    /\ collectors' = collectors - 1
    /\ collector_pass' = [collector_pass EXCEPT
                             !.ended_at = IF pc = "idle" THEN ncalls ELSE @]
    /\ UNCHANGED <<pool, settings, current_block_coord, sim_is_warm,
                   block_grid_tracker, map_grid_block2coords, high_res_dem,
                   crater_db, crater_jobs, terrain_jobs, pc, call, ncalls,
                   last_ret, started, query>>

SplitNext ==
    \/ \E coords \in PoolPositions : SplitUpdate(coords)
    \/ ShiftBlockGrid
    \/ ShiftDem
    \/ GenerateTerrainBlocks
    \/ StartThread
    \/ CollectorTake
    \/ CollectorMergeOne
    \/ CollectorExit

SplitSpec == ReorderInit /\ [][SplitNext]_vars

----------------------------------------------------------------------------
(* generate_craters_metadata of a warm generator, for block sizes that are
   whole or fractional numbers of metres *)

RegionConfigs ==
    { [num_blocks |-> nb, block_size |-> b, len_den |-> d,
       res_num |-> b, res_den |-> 1, generate_craters |-> TRUE] :
         nb \in 0 .. MaxRegionNumBlocks, b \in 1 .. MaxRegionBlockSize,
         d \in 1 .. MaxLengthDen }

RegionCenters(s) ==
    {<<i * s.block_size, j * s.block_size>> :
        i \in -MaxRegionCenter .. MaxRegionCenter,
        j \in -MaxRegionCenter .. MaxRegionCenter}

\* shift(coordinates) at line 429, the window just moved to current_block_coord
RegionInit ==
    /\ settings \in RegionConfigs
    /\ current_block_coord \in RegionCenters(settings)
    /\ sim_is_warm = TRUE
    /\ block_grid_tracker = build_block_grid_tracker(settings)
    /\ map_grid_block2coords = shift_block_grid_map(settings, current_block_coord)
    /\ high_res_dem = instantiate_high_res_dem(settings)
    /\ crater_db = {}
    /\ crater_jobs = <<>>
    /\ terrain_jobs = <<>>
    /\ collectors = 0
    /\ pc = "generate_craters_metadata"
    /\ call = [NoCall EXCEPT !.branch = "move", !.coords = current_block_coord,
                             !.block_coordinates = current_block_coord,
                             !.new_block_coord = current_block_coord,
                             !.num_shifts = 1]
    /\ ncalls = 2
    /\ last_ret = "true"
    /\ started = 1
    /\ query = NoQuery
    /\ pool = NoPool
    /\ collector_pass = NoPass

RegionSpec == RegionInit /\ [][GenerateCratersMetadata]_vars

----------------------------------------------------------------------------
(* The first update of a cold generator whose lengths are binary
   floating-point numbers, up to the entry of its shift: update_high_res_dem
   casts the position (line 467) and shift casts the result again (line 411) *)

\* block sizes with a short significand (1/4 m, 1 m) and with a full one
FloatBlockSizes == {4, 16, 21, 27}

FloatConfigs ==
    { [num_blocks |-> 0, block_size |-> b, len_den |-> FloatLengthDen,
       significand_bits |-> SignificandBits,
       res_num |-> 1, res_den |-> 1, generate_craters |-> FALSE] :
         b \in FloatBlockSizes }

\* positions that are floating-point numbers, up to MaxFloatBlocks blocks away
FloatPositions(s) ==
    LET far == MaxFloatBlocks * s.block_size + s.block_size - 1
        X == {FloatRound(s, v) : v \in (-far) .. far}
    IN {<<x, y>> : x \in X, y \in {0, s.block_size \div 2}}

\* __init__ and build (lines 122-173)
FloatInit ==
    /\ settings \in FloatConfigs
    /\ current_block_coord = <<0, 0>>
    /\ sim_is_warm = FALSE
    /\ block_grid_tracker = build_block_grid_tracker(settings)
    /\ map_grid_block2coords = build_block_grid_map(settings, <<0, 0>>)
    /\ high_res_dem = instantiate_high_res_dem(settings)
    /\ crater_db = {}
    /\ crater_jobs = <<>>
    /\ terrain_jobs = <<>>
    /\ collectors = 0
    /\ pc = "idle"
    /\ call = NoCall
    /\ ncalls = 0
    /\ last_ret = "none"
    /\ started = 0
    /\ query = NoQuery
    /\ pool = NoPool
    /\ collector_pass = NoPass

FloatNext == \E coords \in FloatPositions(settings) : Update(coords)

FloatSpec == FloatInit /\ [][FloatNext]_vars

----------------------------------------------------------------------------
(* The terrain configuration dataclasses of configurations/
   procedural_terrain_confs.py.  A field value is a Python object: a float or
   an int with its number, or the class float or int itself. *)

ConfNumbers ==
    [kind : {"float", "int"}, val : 0 .. MaxConfNumber]

ConfObjects ==
    ConfNumbers \cup {[kind |-> "float_class", val |-> 0],
                      [kind |-> "int_class", val |-> 0]}

\* a few objects for the fields checked late in __post_init__
ConfFew ==
    {[kind |-> "float", val |-> 1], [kind |-> "int", val |-> 1],
     [kind |-> "float", val |-> 0], [kind |-> "float_class", val |-> 0]}

ConfSeeds ==
    {[kind |-> "int", val |-> 1], [kind |-> "float", val |-> 1],
     [kind |-> "int_class", val |-> 0]}

ConfPads ==
    {[kind |-> "int", val |-> 0], [kind |-> "float", val |-> 0],
     [kind |-> "int_class", val |-> 0]}

IsClassObject(v) == v.kind \in {"float_class", "int_class"}

\* assert v is float / assert v is int: identity with the class object
AssertIs(v, class) ==
    IF v.kind = class THEN "pass" ELSE "AssertionError"

\* assert v > n, assert v >= n, assert v <= n for a number n: a class object
\* does not support the comparison
AssertGt(v, n) ==
    IF IsClassObject(v) THEN "TypeError"
    ELSE IF v.val > n THEN "pass" ELSE "AssertionError"

AssertGe(v, n) ==
    IF IsClassObject(v) THEN "TypeError"
    ELSE IF v.val >= n THEN "pass" ELSE "AssertionError"

AssertLe(v, n) ==
    IF IsClassObject(v) THEN "TypeError"
    ELSE IF v.val <= n THEN "pass" ELSE "AssertionError"

\* assert a <= b, assert a > b for two field values
AssertLeq(a, b) ==
    IF IsClassObject(a) \/ IsClassObject(b) THEN "TypeError"
    ELSE IF a.val <= b.val THEN "pass" ELSE "AssertionError"

AssertGreater(a, b) ==
    IF IsClassObject(a) \/ IsClassObject(b) THEN "TypeError"
    ELSE IF a.val > b.val THEN "pass" ELSE "AssertionError"

AssertSameLen(a, b) == IF a = b THEN "pass" ELSE "AssertionError"

\* the statements run in order; the first that does not pass raises
RunAsserts(checks) ==
    IF \A i \in 1 .. Len(checks) : checks[i] = "pass" THEN "ok"
    ELSE LET i == CHOOSE i \in 1 .. Len(checks) :
                     /\ checks[i] # "pass"
                     /\ \A j \in 1 .. i - 1 : checks[j] = "pass"
         IN checks[i]

\* CraterGeneratorConf.__post_init__ (lines 23-36)
CraterGeneratorConf_post_init(c) ==
    RunAsserts(<<AssertIs(c.min_xy_ratio, "float_class"),
                 AssertIs(c.max_xy_ratio, "float_class"),
                 AssertLeq(c.min_xy_ratio, c.max_xy_ratio),
                 AssertGt(c.min_xy_ratio, 0),
                 AssertGt(c.max_xy_ratio, 0),
                 AssertLe(c.min_xy_ratio, 1),
                 AssertLe(c.max_xy_ratio, 1),
                 AssertGt(c.resolution, 0),
                 AssertIs(c.resolution, "float_class"),
                 AssertGe(c.pad_size, 0),
                 AssertIs(c.pad_size, "int_class"),
                 AssertGt(c.z_scale, 0),
                 AssertIs(c.seed, "int_class")>>)

\* CraterDistributionConf.__post_init__ (lines 47-55)
CraterDistributionConf_post_init(c) ==
    RunAsserts(<<AssertGt(c.x_size, 0),
                 AssertIs(c.x_size, "float_class"),
                 AssertGt(c.y_size, 0),
                 AssertIs(c.y_size, "float_class"),
                 AssertSameLen(c.densities, c.radius),
                 AssertGt(c.num_repeat, 0),
                 AssertIs(c.num_repeat, "int_class"),
                 AssertIs(c.seed, "int_class")>>)

\* BaseTerrainGeneratorConf.__post_init__ (lines 67-79)
BaseTerrainGeneratorConf_post_init(c) ==
    RunAsserts(<<AssertGt(c.x_size, 0),
                 AssertIs(c.x_size, "float_class"),
                 AssertGt(c.y_size, 0),
                 AssertIs(c.y_size, "float_class"),
                 AssertGt(c.resolution, 0),
                 AssertIs(c.resolution, "float_class"),
                 AssertGreater(c.max_elevation, c.min_elevation),
                 AssertIs(c.max_elevation, "float_class"),
                 AssertIs(c.min_elevation, "float_class"),
                 AssertGt(c.z_scale, 0),
                 AssertIs(c.z_scale, "float_class"),
                 AssertIs(c.seed, "int_class")>>)

CraterGeneratorConfs ==
    [cls : {"CraterGeneratorConf"},
     min_xy_ratio : ConfObjects, max_xy_ratio : ConfObjects,
     resolution : ConfFew, pad_size : ConfPads, z_scale : ConfFew,
     seed : ConfSeeds]

CraterDistributionConfs ==
    [cls : {"CraterDistributionConf"},
     x_size : ConfFew, y_size : ConfFew,
     densities : 0 .. MaxConfListLen, radius : 0 .. MaxConfListLen,
     num_repeat : ConfSeeds, seed : ConfSeeds]

BaseTerrainGeneratorConfs ==
    [cls : {"BaseTerrainGeneratorConf"},
     x_size : ConfFew, y_size : ConfFew, resolution : ConfFew,
     max_elevation : ConfNumbers, min_elevation : ConfFew,
     seed : ConfSeeds, z_scale : ConfFew]

\* a configuration object is about to be created from the field values
ConfInit ==
    /\ settings \in CraterGeneratorConfs \cup CraterDistributionConfs
                      \cup BaseTerrainGeneratorConfs
    /\ current_block_coord = <<0, 0>>
    /\ sim_is_warm = FALSE
    /\ block_grid_tracker = <<>>
    /\ map_grid_block2coords = <<>>
    /\ high_res_dem = <<>>
    /\ crater_db = {}
    /\ crater_jobs = <<>>
    /\ terrain_jobs = <<>>
    /\ collectors = 0
    /\ pc = "new"
    /\ call = NoCall
    /\ ncalls = 0
    /\ last_ret = "none"
    /\ started = 0
    /\ query = NoQuery
    /\ pool = NoPool
    /\ collector_pass = NoPass

\* the generated __init__ of the dataclass followed by __post_init__
NewConf(class, outcome) ==
    /\ pc = "new"
    /\ settings.cls = class
    /\ pc' = outcome
    /\ UNCHANGED <<collector_pass, pool, settings, current_block_coord, sim_is_warm,
                   block_grid_tracker, map_grid_block2coords, high_res_dem,
                   crater_db, crater_jobs, terrain_jobs, collectors, call, ncalls,
                   last_ret, started, query>>

NewCraterGeneratorConf ==
    NewConf("CraterGeneratorConf", CraterGeneratorConf_post_init(settings))

NewCraterDistributionConf ==
    NewConf("CraterDistributionConf", CraterDistributionConf_post_init(settings))

NewBaseTerrainGeneratorConf ==
    NewConf("BaseTerrainGeneratorConf", BaseTerrainGeneratorConf_post_init(settings))

ConfNext ==
    \/ NewCraterGeneratorConf
    \/ NewCraterDistributionConf
    \/ NewBaseTerrainGeneratorConf

ConfSpec == ConfInit /\ [][ConfNext]_vars

----------------------------------------------------------------------------
(* The kernel fetch_from_dem of terrain_management/geometric_clipmaps_gpu.py,
   one thread (one mesh point) of one launch.  Pixel coordinates are whole
   numbers of half pixels, so that a point can lie between two DEM pixels. *)

\* _sample: the index read, dem[y + x * int(size[1])] (line 24)
SampleIndex(x, y, size) == y + x * size[2]

\* _linear_interpolation: the four indices read (lines 35-42), x and y in
\* half pixels
LinearInterpolationReads(x, y, size) ==
    LET x_idx == TruncDiv(x, 2)
        y_idx == TruncDiv(y, 2)
    IN {SampleIndex(x_idx, y_idx, size),
        SampleIndex(x_idx, y_idx + 1, size),
        SampleIndex(x_idx + 1, y_idx, size),
        SampleIndex(x_idx + 1, y_idx + 1, size)}

Max(a, b) == IF a >= b THEN a ELSE b

\* indices of the flattened DEM (self.dem.flatten(), line 266)
DemIndices(size) == 0 .. size[1] * size[2] - 1

ClipConfigs ==
    [dem_size : (2 .. MaxDemSide) \X (2 .. MaxDemSide),
     meters_per_pixel : 1 .. MaxMetersPerPixel]

\* mesh points in metres whose pixel coordinate is a whole number of half pixels
MeshPoints(s) ==
    {pt \in ((-MaxMeshCoord) .. MaxMeshCoord) \X ((-MaxMeshCoord) .. MaxMeshCoord) :
        /\ (2 * pt[1]) % s.meters_per_pixel = 0
        /\ (2 * pt[2]) % s.meters_per_pixel = 0}

\* position in pixels, from outside the DEM on one side to outside on the other
ClipPositions(s) ==
    {<<x, x>> : x \in -1 .. s.dem_size[1]} \cup {<<0, s.dem_size[2] - 1>>}

\* getElevation(position): the launch of the kernel (lines 278-292)
ClipInit ==
    /\ settings \in ClipConfigs
    /\ \E pt \in MeshPoints(settings), pos \in ClipPositions(settings) :
          call = [x |-> pt[1], y |-> pt[2], position |-> pos,
                  x_tmp |-> 2 * pt[1], y_tmp |-> 2 * pt[2],
                  reads |-> {}, z_out |-> 0]
    /\ current_block_coord = <<0, 0>>
    /\ sim_is_warm = FALSE
    /\ block_grid_tracker = <<>>
    /\ map_grid_block2coords = <<>>
    /\ high_res_dem = <<>>
    /\ crater_db = {}
    /\ crater_jobs = <<>>
    /\ terrain_jobs = <<>>
    /\ collectors = 0
    /\ pc = "align"
    /\ ncalls = 0
    /\ last_ret = "none"
    /\ started = 0
    /\ query = NoQuery
    /\ pool = NoPool
    /\ collector_pass = NoPass

\* lines 62-63
FetchAlign ==
    /\ pc = "align"
    /\ call' = [call EXCEPT
                  !.x_tmp = (2 * call.x) \div settings.meters_per_pixel
                               + 2 * call.position[1],
                  !.y_tmp = (2 * call.y) \div settings.meters_per_pixel
                               + 2 * call.position[2]]
    /\ pc' = "snap"
    /\ UNCHANGED <<collector_pass, pool, settings, current_block_coord, sim_is_warm,
                   block_grid_tracker, map_grid_block2coords, high_res_dem,
                   crater_db, crater_jobs, terrain_jobs, collectors, ncalls,
                   last_ret, started, query>>

\* lines 66-69
FetchSnap ==
    /\ pc = "snap"
    /\ call' = [call EXCEPT
                  !.x_tmp = Max(Min(@, 2 * (settings.dem_size[1] - 1)), 0),
                  !.y_tmp = Max(Min(@, 2 * (settings.dem_size[2] - 1)), 0)]
    /\ pc' = "interpolate"
    /\ UNCHANGED <<collector_pass, pool, settings, current_block_coord, sim_is_warm,
                   block_grid_tracker, map_grid_block2coords, high_res_dem,
                   crater_db, crater_jobs, terrain_jobs, collectors, ncalls,
                   last_ret, started, query>>

\* line 71, on a DEM whose elevations are all 0: a read outside the array
\* returns an arbitrary value
FetchInterpolate ==
    /\ pc = "interpolate"
    /\ LET reads == LinearInterpolationReads(call.x_tmp, call.y_tmp,
                                             settings.dem_size)
       IN \E z \in IF reads \subseteq DemIndices(settings.dem_size)
                    THEN {0} ELSE {0, 1} :
             call' = [call EXCEPT !.reads = reads, !.z_out = z]
    /\ pc' = "fetched"
    /\ UNCHANGED <<collector_pass, pool, settings, current_block_coord, sim_is_warm,
                   block_grid_tracker, map_grid_block2coords, high_res_dem,
                   crater_db, crater_jobs, terrain_jobs, collectors, ncalls,
                   last_ret, started, query>>

ClipNext == FetchAlign \/ FetchSnap \/ FetchInterpolate

ClipSpec == ClipInit /\ [][ClipNext]_vars

----------------------------------------------------------------------------
(* Properties *)

MapDone == is_map_done(block_grid_tracker, map_grid_block2coords)

NoDuplicates(q) == \A i, j \in 1 .. Len(q) : q[i] = q[j] => i = j

\* a collection pass that received at least one result
CollectedSomething ==
    \/ Len(crater_jobs') < Len(crater_jobs)
    \/ Len(terrain_jobs') < Len(terrain_jobs)

\* C1: a warm update whose block-space coordinate equals current_block_coord
\* returns False, performs no shift, submits no job, starts no thread and leaves
\* the buffer, the block grid, the map and current_block_coord unchanged.
C1_NoopUpdate ==
    [][(/\ sim_is_warm
        /\ ncalls' = ncalls + 1
        /\ cast_coordinates_to_block_space(settings, call'.coords) = current_block_coord)
       => (/\ last_ret' = "false"
           /\ pc' = "idle"
           /\ call'.num_shifts = 0
           /\ UNCHANGED <<high_res_dem, block_grid_tracker, map_grid_block2coords,
                          current_block_coord, crater_jobs, terrain_jobs,
                          collectors, started, sim_is_warm, crater_db>>)]_vars

\* update((0,0)) then update((10,10)) has returned "not updated"
C1_Witness ==
    /\ ncalls = 2
    /\ pc = "idle"
    /\ call.coords = <<10, 10>>
    /\ call.old_block_coord = <<0, 0>>
    /\ last_ret = "false"

\* C2 (finite form): once the caller is idle and every submitted job has
\* produced its result and the result was received by a collector, or no
\* collector is left to receive it, the map is done.
C2_EventuallyDone ==
    (/\ sim_is_warm
     /\ pc = "idle"
     /\ \/ collectors = 0
        \/ crater_jobs = <<>> /\ terrain_jobs = <<>>)
    => MapDone

\* C3: no collection pass takes place between shift_block_grid and the update
\* of current_block_coord of a shift.
C3_ShiftExcludesCollect == [][CollectedSomething => pc # "shift_dem"]_vars

\* C4: each pool holds at most one outstanding job per block coordinate.
C4_OneJobPerBlock == NoDuplicates(crater_jobs) /\ NoDuplicates(terrain_jobs)

MapsOutside(s, cur, c) ==
    \E axis \in 1 .. 2 :
        \/ HeightNumerator(s, cur, c, axis) < 0
        \/ HeightNumerator(s, cur, c, axis) >= BufSize(s) * s.res_num

\* C6: get_height of a position that maps outside the buffer fails with an
\* error and returns no sample.
C6_OutOfBoundsFails ==
    (query.kind # "none" /\ MapsOutside(settings, current_block_coord, query.coords))
    => query.kind = "IndexError"

\* first pixel, on one axis, of the region collect_terrain_data writes for slot r
RegionStart(s, r, axis) == ToPixels(s, r[axis]) + PaddingOffset(s)

\* C7: for a position inside a block B of the window, get_height reads the
\* pixel at offset floor((p - origin(B)) / resolution) of the region into
\* which collect_terrain_data merges the raster of B.
C7_ReadMatchesWrite ==
    LET B == cast_coordinates_to_block_space(settings, query.coords)
    IN (query.kind # "none" /\ B \in DOMAIN map_grid_block2coords)
       => /\ query.kind = "value"
          /\ \A axis \in 1 .. 2 :
                query.at[axis] =
                    RegionStart(settings, map_grid_block2coords[B], axis)
                    + (((query.coords[axis] - B[axis]) * settings.res_den)
                         \div settings.res_num)

\* the second update, at (60, 0) from block (0, 0), has returned
SecondUpdateAt60 ==
    /\ ncalls = 2
    /\ pc = "idle"
    /\ call.coords = <<60, 0>>
    /\ call.old_block_coord = <<0, 0>>

\* C8 as stated: the pixel delta of that shift is (-60 / resolution, 0).
C8_Original ==
    SecondUpdateAt60 =>
        /\ call.num_shifts = 1
        /\ call.pixel_shift[1] * settings.res_num = -60 * settings.res_den
        /\ call.pixel_shift[2] = 0

\* C8 amended: exactly one shift, whose pixel delta is the block delta
\* (-int(50 / resolution), 0).
C8_BlockDelta ==
    SecondUpdateAt60 =>
        /\ call.num_shifts = 1
        /\ call.pixel_shift = <<-ToPixels(settings, 50), 0>>
        /\ current_block_coord = <<50, 0>>

C8_Witness == SecondUpdateAt60 /\ last_ret = "true"

BufferFull == \A p \in DOMAIN high_res_dem : high_res_dem[p] # 0

\* C10: is_map_done() is false when a shift returns (unless craters are
\* disabled and the buffer is full), and whenever it is true every block
\* outside the ring has its three flags true.
C10_NotDoneAfterShift ==
    [][/\ (pc = "generate_terrain_blocks" /\ pc' = "start_thread")
            => \/ ~MapDone'
               \/ ~settings.generate_craters /\ BufferFull'
       /\ MapDone' => \A r \in GridSlots(settings) :
                         ~IsRing(settings, r) => AllReady(block_grid_tracker'[r])]_vars

\* the three readiness flags of a block state
Flags(st) == <<st.has_crater_metadata, st.has_crater_data, st.has_terrain_data>>

\* C11: shift_block_grid carries the readiness flags of every absolute block
\* coordinate present before and after the shift over to its new slot, and
\* gives every coordinate new to the window has_terrain_data false and crater
\* flags equal to (not generate_craters).
C11_ShiftCarriesOver ==
    [][(pc = "shift_block_grid" /\ pc' = "shift_dem")
       => \A a \in DOMAIN map_grid_block2coords' :
            LET new == block_grid_tracker'[map_grid_block2coords'[a]]
            IN IF a \in DOMAIN map_grid_block2coords
               THEN Flags(new) = Flags(block_grid_tracker[map_grid_block2coords[a]])
               ELSE Flags(new) = <<~settings.generate_craters,
                                   ~settings.generate_craters, FALSE>>]_vars

\* the grid was shifted to another block and a block that stayed in the window
\* is ready, next to a block that is new
C11_Witness ==
    /\ pc = "shift_dem"
    /\ call.new_block_coord # call.old_block_coord
    /\ \E r \in GridSlots(settings) : block_grid_tracker[r].has_terrain_data
    /\ \E r \in GridSlots(settings) : ~block_grid_tracker[r].has_terrain_data

\* C13: with generate_craters false no job is ever submitted to the crater
\* pool, no crater metadata is sampled, and every block of the grid has
\* has_crater_metadata and has_crater_data true.
C13_NoCraterWork ==
    ~settings.generate_craters
    => /\ crater_jobs = <<>>
       /\ crater_db = {}
       /\ pc # "generate_craters_metadata"
       /\ \A r \in DOMAIN block_grid_tracker :
             /\ block_grid_tracker[r].has_crater_metadata
             /\ block_grid_tracker[r].has_crater_data

\* craters disabled, a second update has shifted the window and its
\* interpolation jobs are outstanding
C13_Witness ==
    /\ ~settings.generate_craters
    /\ ncalls = 2
    /\ pc = "idle"
    /\ last_ret = "true"
    /\ current_block_coord = <<50, 0>>
    /\ terrain_jobs # <<>>

\* C19: after construction and after every completed shift the map is a
\* bijection between the absolute coordinates of the window around
\* current_block_coord and the relative slots of the grid, with
\* relative = absolute - current_block_coord.
C19_MapBijection ==
    pc # "shift_dem"
    => /\ DOMAIN map_grid_block2coords =
            {Add(r, current_block_coord) : r \in GridSlots(settings)}
       /\ DOMAIN block_grid_tracker = GridSlots(settings)
       /\ \A a \in DOMAIN map_grid_block2coords :
             map_grid_block2coords[a] = Sub(a, current_block_coord)
       /\ \A r \in GridSlots(settings) :
             Cardinality({a \in DOMAIN map_grid_block2coords :
                             map_grid_block2coords[a] = r}) = 1

\* a shift away from the block of construction has completed
C19_Witness ==
    /\ pc = "idle"
    /\ last_ret = "true"
    /\ current_block_coord = <<50, 0>>
    /\ call.num_shifts >= 1

\* C20: the state stored at a relative slot has is_padding true exactly when
\* the slot lies in the outermost ring of the grid.
C20_PaddingIsRing ==
    \A r \in GridSlots(settings) :
        block_grid_tracker[r].is_padding = IsRing(settings, r)

Abs(k) == IF k < 0 THEN -k ELSE k

\* C12: after shift_dem by (dx, dy), both smaller in size than the buffer
\* extent, sample (i, j) holds the pre-shift value of pixel (i - dx, j - dy)
\* when that pixel lies inside the buffer and zero otherwise.
C12_ShiftDemMoves ==
    [][(/\ pc = "shift_dem"
        /\ pc' # "shift_dem"
        /\ Abs(call.pixel_shift[1]) < BufSize(settings)
        /\ Abs(call.pixel_shift[2]) < BufSize(settings))
       => \A p \in Pixels(settings) :
            LET src == <<p[1] - call.pixel_shift[1], p[2] - call.pixel_shift[2]>>
            IN high_res_dem'[p] = IF src \in Pixels(settings)
                                  THEN high_res_dem[src] ELSE 0]_vars

\* a shift of opposite signs on the two axes has moved part of the buffer and
\* zeroed the rest
C12_Witness ==
    /\ pc # "shift_dem"
    /\ call.pixel_shift = <<-1, 2>>
    /\ \E p \in Pixels(settings) : high_res_dem[p] = 0
    /\ \E p \in Pixels(settings) :
          /\ <<p[1] + 1, p[2] - 2>> \in Pixels(settings)
          /\ high_res_dem[p] = MarkedDem(settings)[<<p[1] + 1, p[2] - 2>>]

\* C14: with generate_craters false, once the single update((0, 0)) is made,
\* eventually every block has has_terrain_data true, is_map_done() is true and
\* no collector thread is left, and this stays so.
C14_OneUpdateCompletes ==
    []((~settings.generate_craters /\ ncalls = 1)
         => <>[](/\ MapDone
                 /\ \A r \in GridSlots(settings) :
                       block_grid_tracker[r].has_terrain_data
                 /\ collectors = 0))

\* craters disabled: the one collector thread started by update((0, 0)) has
\* seen the map done and left its loop
C14_Witness ==
    /\ ~settings.generate_craters
    /\ ncalls = 1
    /\ call.coords = <<0, 0>>
    /\ started = 1
    /\ collectors = 0
    /\ MapDone

\* the caller is inside update, in process_data, and the input queue is full:
\* its call proceeds only after a worker has taken a job
CallerBlocked == pc = "process_data" /\ InputQueueFull(pool)

\* C15: update never waits for a worker: in no reachable state is the caller
\* held inside a call until a worker frees a place of the input queue.
C15_CallerNeverWaits == ~CallerBlocked

\* number of entries of sequence q equal to a
Count(q, a) == Cardinality({i \in 1 .. Len(q) : q[i] = a})

\* jobs of block a submitted or about to be, result not collected
JobCount(a) ==
    Count(pool.todo, a) + Count(pool.input, a) + Count(pool.busy, a)
      + Count(pool.output, a)

\* block a of the window is not ready and its only job is held by a worker
\* that will never finish it
OnlyJobStuck(a) ==
    /\ pool.stuck
    /\ a \in DOMAIN map_grid_block2coords
    /\ ~block_grid_tracker[map_grid_block2coords[a]].has_terrain_data
    /\ Count(pool.busy, a) = 1
    /\ JobCount(a) = 1

\* C16: while the only job of a window block never produces a result and no
\* shift occurs, the block's flag and is_map_done() stay false and no job for
\* it is submitted; update is never held up; and a shift that keeps the block
\* in the window submits a job for it again.
C16_FailedJobNotRetried ==
    [][\A a \in DOMAIN map_grid_block2coords :
         OnlyJobStuck(a) =>
           /\ (pc = "idle" /\ pc' \in {"idle", "deleted"})
                => /\ ~block_grid_tracker'[map_grid_block2coords'[a]].has_terrain_data
                   /\ ~MapDone'
                   /\ JobCount(a)' = 1
           /\ ~CallerBlocked /\ ~CallerBlocked'
           /\ (pc = "generate_terrain_blocks" /\ pc' # "generate_terrain_blocks")
                => Count(pool'.todo, a) = 1]_vars

ValidSettings(s) == s.block_size > 0 /\ s.res_num > 0 /\ s.num_blocks >= 0

\* C18: no generator instance exists whose settings are invalid
\* (block_size <= 0, resolution <= 0 or num_blocks < 0).
C18_InvalidRejected == pc = "idle" => ValidSettings(settings)

\* value the buffer holds at the pixels of block a once its rasters are merged
BlockValue(s, a) ==
    TerrainRaster(s, a) + (IF s.generate_craters THEN CraterRaster(s, a) ELSE 0)

\* C21: whenever is_map_done() is true (no shift in progress), the buffer
\* region of every block of the window holds exactly the interpolated terrain
\* plus the crater raster of the block's absolute coordinate.
C21_MergedOnce ==
    (pc = "idle" /\ MapDone)
    => \A a \in DOMAIN map_grid_block2coords :
          \A p \in BlockRegion(settings, map_grid_block2coords[a]) :
              high_res_dem[p] = BlockValue(settings, a)

\* the results a collection pass took out of pool queue q
Drained(q, qn) == SubSeq(q, 1, Len(q) - Len(qn))

\* a collection pass drained a result whose coordinate is not in the window
DrainedOutOfWindow ==
    \/ \E i \in 1 .. Len(crater_jobs) - Len(crater_jobs') :
          crater_jobs[i] \notin DOMAIN map_grid_block2coords
    \/ \E i \in 1 .. Len(terrain_jobs) - Len(terrain_jobs') :
          terrain_jobs[i] \notin DOMAIN map_grid_block2coords

\* C22: a collection pass that receives a result for a coordinate no longer in
\* the window raises nothing (the collector thread lives on) and merges the
\* other results of the pass.
C22_StaleResultDiscarded ==
    [][DrainedOutOfWindow
       => /\ collectors' = collectors
          /\ \A i \in 1 .. Len(terrain_jobs) - Len(terrain_jobs') :
                terrain_jobs[i] \in DOMAIN map_grid_block2coords
                => block_grid_tracker'[map_grid_block2coords[terrain_jobs[i]]]
                      .has_terrain_data
          /\ \A i \in 1 .. Len(crater_jobs) - Len(crater_jobs') :
                crater_jobs[i] \in DOMAIN map_grid_block2coords
                => block_grid_tracker'[map_grid_block2coords[crater_jobs[i]]]
                      .has_crater_data]_vars

\* C23: at most one collector thread runs at any time.
C23_SingleCollector == collectors <= 1

\* the block at absolute coordinate a was in the window centred on old
InWindow(s, a, old) == Sub(a, old) \in GridSlots(s)

\* pixel of the region of slot ro that lies where p lies in the region of slot rn
SamePixel(s, p, rn, ro) ==
    <<p[1] - RegionStart(s, rn, 1) + RegionStart(s, ro, 1),
      p[2] - RegionStart(s, rn, 2) + RegionStart(s, ro, 2)>>

\* a merged flag is backed by data in the region of the block's slot
FlagsBacked ==
    \A a \in DOMAIN map_grid_block2coords :
        LET r == map_grid_block2coords[a]
        IN (\/ block_grid_tracker[r].has_terrain_data
            \/ (settings.generate_craters /\ block_grid_tracker[r].has_crater_data))
           => \A p \in BlockRegion(settings, r) : high_res_dem[p] # 0

\* C24: with no collection pass interleaved, the buffer shift of a shift
\* (shift_block_grid done, shift_dem acting) leaves every block that was in
\* the window before with, at its new slot, exactly the values its old region
\* held, leaves the region of every block new to the window all zero, and so
\* keeps every true data flag backed by data at the block's current slot.
C24_ShiftCoherent ==
    [][(pc = "shift_dem" /\ pc' # "shift_dem")
       => /\ \A a \in DOMAIN map_grid_block2coords :
               LET rn == map_grid_block2coords[a]
                   ro == Sub(a, current_block_coord)
               IN \A p \in BlockRegion(settings, rn) :
                     high_res_dem'[p] =
                        IF InWindow(settings, a, current_block_coord)
                        THEN high_res_dem[SamePixel(settings, p, rn, ro)]
                        ELSE 0
          /\ FlagsBacked']_vars

\* a shift has moved the buffer with a block carried over with its data and a
\* block new to the window
C24_Witness ==
    /\ pc = "start_thread"
    /\ \E a, b \in DOMAIN map_grid_block2coords :
          /\ InWindow(settings, a, call.old_block_coord)
          /\ a # Add(map_grid_block2coords[a], call.old_block_coord)
          /\ block_grid_tracker[map_grid_block2coords[a]].has_terrain_data
          /\ \A p \in BlockRegion(settings, map_grid_block2coords[a]) :
                high_res_dem[p] # 0
          /\ ~InWindow(settings, b, call.old_block_coord)
          /\ ~block_grid_tracker[map_grid_block2coords[b]].has_terrain_data

\* C26: the pixel delta of a shift is, per axis, -(new_block - old_block) /
\* resolution with new_block the block-space cast of the requested position
\* and old_block the current block coordinate: a whole number of blocks in
\* pixels, of sign opposite to the window motion, whatever the position
\* inside the new block.
C26_PixelDelta ==
    pc = "shift_block_grid"
    => /\ call.new_block_coord =
             cast_coordinates_to_block_space(settings, call.coords)
       /\ call.old_block_coord = current_block_coord
       /\ \A i \in 1 .. 2 :
             LET delta == call.new_block_coord[i] - current_block_coord[i]
             IN /\ call.pixel_shift[i] * settings.res_num
                      = -delta * settings.res_den
                /\ delta % settings.block_size = 0
                /\ call.pixel_shift[i]
                      = -(delta \div settings.block_size)
                          * ToPixels(settings, settings.block_size)
                /\ (delta > 0 => call.pixel_shift[i] < 0)
                /\ (delta < 0 => call.pixel_shift[i] > 0)
                /\ (delta = 0 => call.pixel_shift[i] = 0)

\* a shift to a position inside a block, several blocks away on one axis in
\* the positive direction and on the other in the negative direction
C26_Witness ==
    /\ pc = "shift_block_grid"
    /\ call.coords # call.new_block_coord
    /\ call.new_block_coord[1] - current_block_coord[1] > settings.block_size
    /\ call.new_block_coord[2] - current_block_coord[2] < 0
    /\ call.pixel_shift[1] < -ToPixels(settings, settings.block_size)
    /\ call.pixel_shift[2] > 0

\* C25: a pixel delta larger in size than the buffer extent on either axis,
\* in the positive or in the negative direction and whatever the delta on the
\* other axis, makes shift_dem leave every sample of the buffer at zero.
C25_OvershootZeroes ==
    [][(/\ pc = "shift_dem"
        /\ pc' # "shift_dem"
        /\ \/ Abs(call.pixel_shift[1]) > BufSize(settings)
           \/ Abs(call.pixel_shift[2]) > BufSize(settings))
       => \A p \in Pixels(settings) : high_res_dem'[p] = 0]_vars

\* shift_dem has run with a delta beyond the extent in the negative direction
\* on one axis and a delta of one pixel on the other
C25_Witness ==
    /\ pc # "shift_dem"
    /\ call.pixel_shift[1] = 1
    /\ call.pixel_shift[2] < -BufSize(settings)
    /\ \A p \in Pixels(settings) : high_res_dem[p] = 0

\* what a drained result list adds at pixel p: the raster of every result
\* whose block has a slot in the window and whose region holds p
RECURSIVE Contribution(_, _, _, _, _)
Contribution(s, map, results, kind, p) ==
    IF results = <<>> THEN 0
    ELSE LET a == Head(results)
         IN (IF a \in DOMAIN map /\ p \in BlockRegion(s, map[a])
             THEN (IF kind = "crater" THEN CraterRaster(s, a) ELSE TerrainRaster(s, a))
             ELSE 0)
            + Contribution(s, map, Tail(results), kind, p)

\* slot r is the slot of one of the results
Returned(map, results, r) ==
    \E i \in 1 .. Len(results) : results[i] \in DOMAIN map /\ map[results[i]] = r

\* C27: a collection pass adds to every pixel the rasters of the drained
\* results whose block region (the block's current slot, offset by the padding
\* ring) holds it, sets has_crater_data of the blocks of the crater results
\* and has_terrain_data of the blocks of the terrain results, and changes no
\* other pixel, no other flag and no map; the sums do not depend on the order
\* of the results.
C27_PassAddsEach ==
    [][(crater_jobs' # crater_jobs \/ terrain_jobs' # terrain_jobs)
         /\ Len(crater_jobs') <= Len(crater_jobs)
         /\ Len(terrain_jobs') <= Len(terrain_jobs)
       => LET dc == Drained(crater_jobs, crater_jobs')
              dt == Drained(terrain_jobs, terrain_jobs')
              map == map_grid_block2coords
          IN /\ \A p \in DOMAIN high_res_dem :
                   high_res_dem'[p] = high_res_dem[p]
                      + Contribution(settings, map, dc, "crater", p)
                      + Contribution(settings, map, dt, "terrain", p)
             /\ \A r \in DOMAIN block_grid_tracker :
                   block_grid_tracker'[r] =
                      [block_grid_tracker[r] EXCEPT
                         !.has_crater_data = @ \/ Returned(map, dc, r),
                         !.has_terrain_data = @ \/ Returned(map, dt, r)]
             /\ map_grid_block2coords' = map_grid_block2coords
             /\ current_block_coord' = current_block_coord]_vars

\* C28: when generate_terrain_blocks, the last step of shift, has run, every
\* block of the grid, padding ring included, whose has_terrain_data is false
\* has an interpolation job keyed by its absolute coordinate among the jobs
\* this shift submitted, and every block whose has_crater_data is false has a
\* crater job.
C28_MissingDataSubmitted ==
    [][(pc = "generate_terrain_blocks" /\ pc' = "start_thread")
       => LET nc == SubSeq(crater_jobs', Len(crater_jobs) + 1, Len(crater_jobs'))
              nt == SubSeq(terrain_jobs', Len(terrain_jobs) + 1, Len(terrain_jobs'))
          IN \A a \in DOMAIN map_grid_block2coords' :
               LET st == block_grid_tracker'[map_grid_block2coords'[a]]
               IN /\ ~st.has_terrain_data => Count(nt, a) >= 1
                  /\ ~st.has_crater_data => Count(nc, a) >= 1]_vars

\* a shift with craters enabled has returned with jobs of both kinds submitted
\* for a block of the padding ring that still lacks both rasters
C28_Witness ==
    /\ pc = "start_thread"
    /\ \E a \in DOMAIN map_grid_block2coords :
          LET st == block_grid_tracker[map_grid_block2coords[a]]
          IN /\ IsRing(settings, map_grid_block2coords[a])
             /\ ~st.has_terrain_data
             /\ ~st.has_crater_data
             /\ Count(terrain_jobs, a) >= 1
             /\ Count(crater_jobs, a) >= 1

\* shutdown was called, the caller is back, and no result is left to collect:
\* the workers are terminated, so nothing a collection loop reads can change
AfterShutdownQuiet ==
    /\ pool.shutdown_calls >= 1
    /\ pc \in {"idle", "deleted"}
    /\ pool.interpolator_manager = "stopped"
    /\ pool.output = <<>>

\* C30: after shutdown() every background collection loop terminates, also
\* when the map is not done; in finite form: once shutdown was called and no
\* result is left, a loop still running is one whose exit test, is_map_done(),
\* holds.
C30_CollectorsEndAfterShutdown ==
    AfterShutdownQuiet => (collectors = 0 \/ MapDone)

\* absolute coordinates of the window that were not in the window centred on old
NewToWindow(s, map, old) == {a \in DOMAIN map : ~InWindow(s, a, old)}

Elements(q) == {q[i] : i \in 1 .. Len(q)}

\* C29: a shift by less than the window extent entered with is_map_done()
\* true submits interpolation jobs, and crater jobs when craters are enabled,
\* exactly for the absolute coordinates new to the window, one job each and
\* none for a reused block; a one-block axis-aligned shift submits
\* 2*num_blocks+3 interpolation jobs.
C29_OnlyNewBlocksSubmitted ==
    [][(/\ pc = "generate_terrain_blocks"
        /\ pc' = "start_thread"
        /\ call.was_done
        /\ \A i \in 1 .. 2 :
              Abs(call.new_block_coord[i] - call.old_block_coord[i])
                 < (2 * settings.num_blocks + 3) * settings.block_size)
       => LET nc == SubSeq(crater_jobs', Len(crater_jobs) + 1, Len(crater_jobs'))
              nt == SubSeq(terrain_jobs', Len(terrain_jobs) + 1, Len(terrain_jobs'))
              new == NewToWindow(settings, map_grid_block2coords, call.old_block_coord)
              d == Sub(call.new_block_coord, call.old_block_coord)
          IN /\ Elements(nt) = new
             /\ NoDuplicates(nt)
             /\ Elements(nc) = IF settings.generate_craters THEN new ELSE {}
             /\ NoDuplicates(nc)
             /\ (Abs(d[1]) + Abs(d[2]) = settings.block_size)
                   => Len(nt) = 2 * settings.num_blocks + 3]_vars

\* a collection loop ended on is_map_done() with the caller idle, and no
\* update was called since
LoopEndedNoShiftSince ==
    /\ collector_pass.ended_at = ncalls
    /\ pc = "idle"
    /\ pc' = "idle"

\* C31: a collection loop drains results only while is_map_done() is false
\* and returns when it finds it true; once a loop has returned, and as long
\* as no further shift occurs, the buffer and the flags of the blocks are not
\* modified again.
C31_LoopEndsWhenDone ==
    [][/\ collector_pass'.held # collector_pass.held /\ collector_pass.held = <<>>
          => ~MapDone
       /\ collector_pass'.ended_at # collector_pass.ended_at
          => (MapDone /\ collectors' = collectors - 1)
       /\ LoopEndedNoShiftSince
          => (/\ high_res_dem' = high_res_dem
              /\ block_grid_tracker' = block_grid_tracker)]_vars


\* a shift has just returned to update_high_res_dem with craters enabled
ShiftReturnedWithCraters == pc = "start_thread" /\ settings.generate_craters

\* C32: with crater generation enabled, when shift returns the
\* has_crater_metadata flag of every block of the grid, reused or new, equals
\* what check_block_exists returns for the block's absolute coordinate.
C32_MetadataFlagMatchesDatabase ==
    ShiftReturnedWithCraters =>
        \A a \in DOMAIN map_grid_block2coords :
            block_grid_tracker[map_grid_block2coords[a]].has_crater_metadata
                = check_block_exists(crater_db, a)

\* a shift of a warm generator returned with reused and new blocks in the grid
C32_Witness ==
    /\ ShiftReturnedWithCraters
    /\ call.branch = "move"
    /\ \E a, b \in DOMAIN map_grid_block2coords :
          /\ InWindow(settings, a, call.old_block_coord)
          /\ ~InWindow(settings, b, call.old_block_coord)
          /\ block_grid_tracker[map_grid_block2coords[a]].has_crater_metadata
          /\ block_grid_tracker[map_grid_block2coords[b]].has_crater_metadata


\* the step of generate_terrain_blocks, and the crater jobs it appends
SubmissionStep == pc = "generate_terrain_blocks" /\ pc' = "start_thread"

SubmittedCraterJobs ==
    CraterJobs(settings, block_grid_tracker, map_grid_block2coords,
               OrderedKeys(settings, current_block_coord))

\* C33: within one shift the metadata sampling and the flag refresh are
\* complete before a crater job of that shift is submitted (the sampling step
\* submits nothing, and at submission the region of the shift is in the
\* database and the flags agree with it), and a crater job is submitted only
\* for a block whose has_crater_metadata is true.
C33_MetadataBeforeCraterJobs ==
    [][/\ (pc = "generate_craters_metadata" /\ pc' # pc) => crater_jobs' = crater_jobs
       /\ (SubmissionStep /\ SubmittedCraterJobs # <<>>) =>
             /\ crater_jobs' = crater_jobs \o SubmittedCraterJobs
             /\ RegionBlocks(settings, SampleRegion(settings, current_block_coord))
                   \subseteq crater_db
             /\ \A a \in DOMAIN map_grid_block2coords :
                   block_grid_tracker[map_grid_block2coords[a]].has_crater_metadata
                       = check_block_exists(crater_db, a)
             /\ \A a \in Elements(SubmittedCraterJobs) :
                   block_grid_tracker[map_grid_block2coords[a]].has_crater_metadata
       /\ (crater_jobs' # crater_jobs /\ Len(crater_jobs') >= Len(crater_jobs))
             => SubmissionStep]_vars

\* a shift of a warm generator submitted a crater job for a block new to the
\* window, whose metadata flag is true
C33_Witness ==
    /\ ShiftReturnedWithCraters
    /\ call.branch = "move"
    /\ \E a \in Elements(crater_jobs) :
          /\ a \in NewToWindow(settings, map_grid_block2coords, call.old_block_coord)
          /\ block_grid_tracker[map_grid_block2coords[a]].has_crater_metadata


\* generate_craters_metadata has just returned to shift (line 430)
CratersSampled == pc = "generate_terrain_blocks" /\ settings.generate_craters

\* C34: the crater sampling region is the square
\* [cur - (num_blocks+2)*block_size, cur + (num_blocks+2)*block_size] on each
\* axis, cur being the already updated current_block_coord, and it contains
\* the full extent [origin, origin + block_size] of every block of the grid,
\* padding ring included.
C34_RegionCoversGrid ==
    CratersSampled =>
        LET region == SampleRegion(settings, current_block_coord)
            m == (settings.num_blocks + 2) * settings.block_size
        IN /\ current_block_coord = call.new_block_coord
           /\ region = [x_min |-> current_block_coord[1] - m,
                        x_max |-> current_block_coord[1] + m,
                        y_min |-> current_block_coord[2] - m,
                        y_max |-> current_block_coord[2] + m]
           /\ \A a \in DOMAIN map_grid_block2coords :
                 /\ region.x_min <= a[1]
                 /\ a[1] + settings.block_size <= region.x_max
                 /\ region.y_min <= a[2]
                 /\ a[2] + settings.block_size <= region.y_max


\* side of the buffer in pixels: int((num_blocks*2+3) * block_size / resolution)
BufferSide ==
    TruncDiv((2 * settings.num_blocks + 3) * settings.block_size * settings.res_den,
             settings.res_num)

GridEntries == (2 * (settings.num_blocks + 1) + 1) * (2 * (settings.num_blocks + 1) + 1)

\* C35: the buffer is always a square of (2*num_blocks+3)*block_size/resolution
\* pixels per side, and the block grid and the coordinate map each hold exactly
\* (2*(num_blocks+1)+1)^2 entries.
C35_SizesConstant ==
    /\ DOMAIN high_res_dem = (0 .. BufferSide - 1) \X (0 .. BufferSide - 1)
    /\ Cardinality(DOMAIN block_grid_tracker) = GridEntries
    /\ Cardinality(DOMAIN map_grid_block2coords) = GridEntries

\* a warm generator whose window moved and whose buffer received results
C35_Witness ==
    /\ pc = "idle"
    /\ call.branch = "move"
    /\ current_block_coord # <<0, 0>>
    /\ \E p \in DOMAIN high_res_dem : high_res_dem[p] # 0


\* the constructor has returned and no operation has been called yet
JustConstructed == pc = "idle" /\ ncalls = 0

\* C36: immediately after construction every block has has_terrain_data
\* false and has_crater_metadata and has_crater_data equal to
\* (not generate_craters), the buffer is all zeros, is_map_done() is false, the
\* generator is cold and no work has been submitted.
C36_FreshGenerator ==
    JustConstructed =>
        /\ \A r \in DOMAIN block_grid_tracker :
              /\ ~block_grid_tracker[r].has_terrain_data
              /\ block_grid_tracker[r].has_crater_metadata = ~settings.generate_craters
              /\ block_grid_tracker[r].has_crater_data = ~settings.generate_craters
        /\ \A p \in DOMAIN high_res_dem : high_res_dem[p] = 0
        /\ ~is_map_done(block_grid_tracker, map_grid_block2coords)
        /\ ~sim_is_warm
        /\ crater_jobs = <<>>
        /\ terrain_jobs = <<>>
        /\ collectors = 0
        /\ started = 0

\* a freshly constructed generator with crater generation disabled: a grid of
\* blocks whose crater flags are preset and whose terrain flag is not
C36_Witness ==
    /\ JustConstructed
    /\ ~settings.generate_craters
    /\ DOMAIN block_grid_tracker # {}
    /\ \A r \in DOMAIN block_grid_tracker :
          block_grid_tracker[r].has_crater_data /\ ~block_grid_tracker[r].has_terrain_data


\* m is the greatest multiple of b not exceeding x
FloorMultiple(m, x, b) == m % b = 0 /\ m <= x /\ x < m + b

\* C37: cast_coordinates_to_block_space returns on each axis the greatest
\* multiple of block_size not exceeding the coordinate, also for negative
\* coordinates; applying it twice gives the result of applying it once; and
\* current_block_coord is a multiple of block_size on both axes in every
\* reachable state.
C37_CastIsFloor ==
    /\ \A i \in 1 .. 2 :
          /\ current_block_coord[i] % settings.block_size = 0
          /\ FloorMultiple(call.block_coordinates[i], call.coords[i],
                           settings.block_size)
          /\ call.branch = "move" =>
                FloorMultiple(call.new_block_coord[i], call.coords[i],
                              settings.block_size)
    /\ cast_coordinates_to_block_space(settings, call.block_coordinates)
          = call.block_coordinates
    /\ cast_coordinates_to_block_space(settings, call.new_block_coord)
          = call.new_block_coord


IsFloat(v) == v.kind = "float"
IsInt(v) == v.kind = "int"

\* the constraints the assertion messages of each class state
ConstraintsHold(c) ==
    IF c.cls = "CraterGeneratorConf"
    THEN /\ IsFloat(c.min_xy_ratio) /\ IsFloat(c.max_xy_ratio)
         /\ c.min_xy_ratio.val <= c.max_xy_ratio.val
         /\ c.min_xy_ratio.val > 0 /\ c.max_xy_ratio.val > 0
         /\ c.min_xy_ratio.val <= 1 /\ c.max_xy_ratio.val <= 1
         /\ c.resolution.val > 0 /\ IsFloat(c.resolution)
         /\ c.pad_size.val >= 0 /\ IsInt(c.pad_size)
         /\ ~IsClassObject(c.z_scale) /\ c.z_scale.val > 0
         /\ IsInt(c.seed)
    ELSE IF c.cls = "CraterDistributionConf"
    THEN /\ c.x_size.val > 0 /\ IsFloat(c.x_size)
         /\ c.y_size.val > 0 /\ IsFloat(c.y_size)
         /\ c.densities = c.radius
         /\ c.num_repeat.val > 0 /\ IsInt(c.num_repeat)
         /\ IsInt(c.seed)
    ELSE /\ c.x_size.val > 0 /\ IsFloat(c.x_size)
         /\ c.y_size.val > 0 /\ IsFloat(c.y_size)
         /\ c.resolution.val > 0 /\ IsFloat(c.resolution)
         /\ c.max_elevation.val > c.min_elevation.val
         /\ IsFloat(c.max_elevation) /\ IsFloat(c.min_elevation)
         /\ c.z_scale.val > 0 /\ IsFloat(c.z_scale)
         /\ IsInt(c.seed)

\* C38: CraterGeneratorConf, CraterDistributionConf and
\* BaseTerrainGeneratorConf accept every configuration whose fields satisfy
\* the constraints stated in their assertion messages and raise only for
\* configurations that violate one of them.
C38_AcceptsExactlyValid ==
    pc \in {"ok", "AssertionError", "TypeError"} =>
        (pc = "ok" <=> ConstraintsHold(settings))


\* C39: every DEM index read by fetch_from_dem through
\* _linear_interpolation and _sample lies in [0, dem_size[0]*dem_size[1]), for
\* every mesh point and every position, the points snapped to the upper DEM
\* border included.
C39_ReadsInsideDem ==
    pc = "fetched" => call.reads \subseteq DemIndices(settings.dem_size)

====
